---- MODULE Spec2Model ----
(***************************************************************************)
(* Model of the AWS support case monitor (scripts/monitor-cases.js): one   *)
(* invocation polls the case list, diffs every polled case against the     *)
(* snapshot loaded from the state file, notifies, and overwrites the state *)
(* file with the poll.  Invocations follow one another (cron, every 15     *)
(* minutes); the only state kept between them is the state file.           *)
(*                                                                         *)
(* The other scripts have a specification each, over variables of their    *)
(* own: SpecRetry (callOpenAI and callClaude of the request generator),    *)
(* SpecGen (the generator's main), SpecFlow (createSupportCaseFromIssue    *)
(* and replyToCase) and SpecGateway (AWSSupportClient).  SpecLoad is one   *)
(* monitor invocation on a state file the monitor did not write,           *)
(* SpecOverlap two monitor runs at once on one state file, SpecResolve one *)
(* loadCredentials on a credentials file, SpecRequest one call of          *)
(* generateSupportRequest, SpecReply replyToCase on the text of a comment, *)
(* SpecExtract and SpecParse one extractReplyMessage and one               *)
(* parseIssueBody.                                                         *)
(*                                                                         *)
(* A string the code takes apart (a credentials file, a comment, an issue  *)
(* body) is a sequence of tokens: each of the characters the code looks    *)
(* for is a token of its own, and a run of other characters is one token.  *)
(***************************************************************************)
EXTENDS Integers, Sequences, FiniteSets, TLC

\* ------------------------------------------------------------------ bounds
\* Number of distinct case ids the upstream knows.
NumCases == 2
\* Number of distinct communication timestamps.
NumTimes == 2
\* Longest recentCommunications list of a polled case.
MaxComms == 2
\* Longest poll of the invocations of SpecDedup.
DedupPollLen == 1
\* The same two bounds for the inputs of a single check (SpecCheck), whose
\* lists may repeat a timestamp.
ChkNumTimes == 2
ChkMaxComms == 3
\* Longest list or string found in a state file the monitor did not write.
MaxForeignLen == 2
\* Largest Retry-After an AI API answers with, in seconds.
MaxHint == 1
\* A Retry-After longer than all the backoff waits of one call together.
LongHint == 7001
\* Number of distinct texts an AI API may generate.
NumContents == 2
\* Latest Date.now() of a process that uses a gateway.
MaxClock == 2
\* Most operations made on one gateway.
MaxOps == 3
\* Most sections of a credentials file, and most key = value lines of one.
MaxSections == 2
MaxPairs == 3
\* Most lines of a comment.
MaxCommentLines == 4
\* Most headings of an issue body.
MaxHeadings == 3
\* The length parseIssueBody cuts the subject to.
SubjectLength == 100
\* The length in characters of the longest line drawn for a summary.
MaxLineLength == 101

\* ------------------------------------------------------------- data model
CaseIds == 1..NumCases
Times == 1..NumTimes

\* The status values of the upstream (formatStatus' table).  The detector
\* compares two of them with !== and reads nothing else of a status, so the
\* monitor's polls carry two of them.
Statuses ==
  {"opened", "pending-customer-action", "reopened", "resolved", "unassigned"}
PolledStatuses == {"opened", "resolved"}

\* `!issueNumber` is true of null (and of 0): null is 0, issue numbers are > 0.
Null == 0

SeqsUpTo(S, n) == UNION {[1..m -> S] : m \in 0..n}

IsInjective(s) == \A a, b \in 1..Len(s) : s[a] = s[b] => a = b

\* A communication; only timeCreated is read by the detector.
Communications == [timeCreated : Times]

\* recentCommunications.communications of a polled case: timeCreated is
\* unique per case.  (A missing recentCommunications reads as the empty list.)
CommLists == {s \in SeqsUpTo(Communications, MaxComms) : IsInjective(s)}

Cases == [caseId : CaseIds, status : PolledStatuses, communications : CommLists]

CaseIdsOf(cs) == {cs[k].caseId : k \in 1..Len(cs)}

\* response.cases of one describeCases call, of at most n cases: case ids are
\* globally unique.
PollsUpTo(n) ==
  {cs \in SeqsUpTo(Cases, n) : \A a, b \in 1..Len(cs) :
      cs[a].caseId = cs[b].caseId => a = b}

Polls == PollsUpTo(NumCases)
DedupPolls == PollsUpTo(DedupPollLen)

\* The state file: absent, a JSON list of case records, or the unparseable
\* beginning of one.
MissingFile == [kind |-> "missing", cases |-> <<>>]
ListFile(cs) == [kind |-> "list", cases |-> cs]
PartialFile == [kind |-> "partial", cases |-> <<>>]

\* What reading a property a value does not have evaluates to, used as the
\* key "undefined" of an object and as a missing number.
Undefined == -1

\* Elements of a JSON list that are no case record.  A value that has no
\* caseId (a number, a string, a character of a string, an object without the
\* property): reading its caseId, status or recentCommunications gives
\* undefined.  null: reading its caseId throws.
NoIdElement == [caseId |-> Undefined, status |-> "", communications |-> <<>>]
NullElement == [caseId |-> Null, status |-> "", communications |-> <<>>]

\* A state file that exists and cannot be read (EACCES, a directory).
UnreadableFile == [kind |-> "unreadable", cases |-> <<>>]
\* Valid JSON that for...of cannot iterate: an object, a number, true, null.
ScalarFile == [kind |-> "scalar", cases |-> <<>>]
\* A JSON string: for...of iterates its characters.
TextFile(chars) == [kind |-> "text", cases |-> chars]

\* A case record some earlier poll may have saved.
SavedCase == [caseId |-> 1, status |-> "opened", communications |-> <<>>]

\* The state files no invocation of the monitor wrote: nothing, or what
\* something else left at the path.
ForeignLists ==
  {cs \in SeqsUpTo({NoIdElement, NullElement, SavedCase}, MaxForeignLen) :
     \E k \in 1..Len(cs) : cs[k] # SavedCase}
ForeignFiles ==
  {MissingFile, UnreadableFile, PartialFile, ScalarFile}
    \cup {TextFile(cs) : cs \in SeqsUpTo({NoIdElement}, MaxForeignLen)}
    \cup {ListFile(cs) : cs \in ForeignLists}

\* ------------------------------------------------------------ state store
\* state[c.caseId] = c for every c of the list, in order: the last wins.
RECURSIVE IndexState(_, _)
IndexState(cs, state) ==
  IF cs = <<>> THEN state
  ELSE LET c == Head(cs)
           ids == DOMAIN state \cup {c.caseId}
       IN IndexState(Tail(cs),
            [id \in ids |-> IF id = c.caseId THEN c ELSE state[id]])

EmptyState == [id \in {} |-> Null]

\* A load that files the elements of the list by position.
loadState_ByPosition(f) ==
  IF f.kind \in {"list", "text"}
  THEN [k \in 1..Len(f.cases) |-> f.cases[k]]
  ELSE EmptyState

\* loadState: a missing file is the empty state, and so is one on which
\* readFileSync, JSON.parse, for...of or the read of c.caseId throws (the
\* catch drops what the loop had indexed); the elements of an iterable value
\* are indexed by their caseId, which is undefined for those that have none.
loadState(f) ==
  IF /\ f.kind \in {"list", "text"}
     /\ \A k \in 1..Len(f.cases) : f.cases[k] # NullElement
  THEN IndexState(f.cases, EmptyState)
  ELSE EmptyState

\* --------------------------------------------------------- change detector
\* The events a check detects (its console.log lines).
StatusChanged(caseId, previous, current) ==
  [type |-> "StatusChanged", caseId |-> caseId, previous |-> previous,
   current |-> current, communications |-> <<>>]
NewCommunications(caseId, comms) ==
  [type |-> "NewCommunications", caseId |-> caseId, previous |-> "",
   current |-> "", communications |-> comms]

\* A comment on an issue of the tracker.
StatusComment(issueNumber, caseData, previousCase) ==
  [issue |-> issueNumber, type |-> "StatusChanged", caseId |-> caseData.caseId,
   timeCreated |-> Null]
CommunicationComment(issueNumber, caseData, comm) ==
  [issue |-> issueNumber, type |-> "NewCommunications",
   caseId |-> caseData.caseId, timeCreated |-> comm.timeCreated]

\* What a call has done when it returns or throws.
Effect(events, notified, posted, threw) ==
  [events |-> events, notified |-> notified, posted |-> posted, threw |-> threw]
NoEffect == Effect(<<>>, <<>>, <<>>, FALSE)

\* options.githubToken && options.repository
Configured(options) == options.githubToken /\ options.repository

\* A lookup that finds an issue for every case.
findIssueNumber_Found(caseId, repository) == caseId

\* findIssueNumber: the lookup of the issue of a case is a stub.
findIssueNumber(caseId, repository) == Null

\* postCommentToIssue: resolves on a 2xx answer, rejects on any other answer
\* and on a transport error.
postCommentToIssue(issueNumber, body, accepted) ==
  IF accepted THEN Effect(<<>>, <<>>, <<body>>, FALSE)
  ELSE Effect(<<>>, <<>>, <<>>, TRUE)

\* A detector that takes the new communications to be those past the
\* previous list's length.
getNewCommunications_ByLength(currentCase, previousCase) ==
  SubSeq(currentCase.communications,
         Len(previousCase.communications) + 1,
         Len(currentCase.communications))

\* getNewCommunications: the current communications whose timeCreated is not
\* among the previous ones.
getNewCommunications(currentCase, previousCase) ==
  LET previousTimes ==
        {previousCase.communications[k].timeCreated :
           k \in 1..Len(previousCase.communications)}
  IN SelectSeq(currentCase.communications,
               LAMBDA c : c.timeCreated \notin previousTimes)

\* A detector that takes a case that left "resolved" to be unchanged.
statusDiffers_FromOpenOnly(caseData, previousCase) ==
  caseData.status # previousCase.status /\ previousCase.status # "resolved"

\* caseData.status !== previousCase.status
statusDiffers(caseData, previousCase) ==
  caseData.status # previousCase.status

\* notifyStatusChange.  failAt is the ordinal, among the posts of one check,
\* of the post the tracker rejects (0: none); this post is the first.
notifyStatusChange(caseData, previousCase, options, failAt) ==
  LET issueNumber == findIssueNumber(caseData.caseId, options.repository)
  IN IF issueNumber = Null THEN NoEffect
     ELSE postCommentToIssue(issueNumber,
            StatusComment(issueNumber, caseData, previousCase), failAt # 1)

\* notifyNewCommunications: one post per communication, in order, up to the
\* first post that is rejected.  `before` posts precede these in the check.
notifyNewCommunications(caseData, communications, options, before, failAt) ==
  LET issueNumber == findIssueNumber(caseData.caseId, options.repository)
      n == Len(communications)
      rejected == failAt \in (before + 1)..(before + n)
      made == IF rejected THEN failAt - before - 1 ELSE n
  IN IF issueNumber = Null THEN NoEffect
     ELSE Effect(<<>>, <<>>,
            [k \in 1..made |->
               CommunicationComment(issueNumber, caseData, communications[k])],
            rejected)

\* A lookup that takes a case without a snapshot to have a blank one.
previousCaseOf_BlankDefault(caseData, previousState) ==
  IF caseData.caseId \in DOMAIN previousState
  THEN <<previousState[caseData.caseId]>>
  ELSE <<[caseId |-> caseData.caseId, status |-> "", communications |-> <<>>]>>

\* previousState[caseId]: <<the snapshot>>, or <<>> for undefined.
previousCaseOf(caseData, previousState) ==
  IF caseData.caseId \in DOMAIN previousState
  THEN <<previousState[caseData.caseId]>>
  ELSE <<>>

\* A check that makes its second step first.
Then_Swapped(a, b) ==
  IF b.threw THEN b
  ELSE Effect(b.events \o a.events, b.notified \o a.notified,
              b.posted \o a.posted, a.threw)

\* Two awaited steps in a row: the second is made unless the first threw.
Then(a, b) ==
  IF a.threw THEN a
  ELSE Effect(a.events \o b.events, a.notified \o b.notified,
              a.posted \o b.posted, b.threw)

\* checkCaseChanges: the events detected, the notify calls made and the
\* comments posted for one polled case, and whether the check threw.
checkCaseChanges(caseData, previousState, options, failAt) ==
  IF previousCaseOf(caseData, previousState) = <<>> THEN NoEffect
  ELSE
    LET previousCase == previousCaseOf(caseData, previousState)[1]
        changed == statusDiffers(caseData, previousCase)
        statusEvent ==
          <<StatusChanged(caseData.caseId, previousCase.status,
                          caseData.status)>>
        s == IF Configured(options)
             THEN notifyStatusChange(caseData, previousCase, options, failAt)
             ELSE NoEffect
        statusStep ==
          IF changed
          THEN Effect(statusEvent,
                      IF Configured(options) THEN statusEvent ELSE <<>>,
                      s.posted, s.threw)
          ELSE NoEffect
        newCommunications == getNewCommunications(caseData, previousCase)
        commEvent ==
          <<NewCommunications(caseData.caseId, newCommunications)>>
        c == IF Configured(options)
             THEN notifyNewCommunications(caseData, newCommunications, options,
                                          Len(statusStep.posted), failAt)
             ELSE NoEffect
        commStep ==
          IF Len(newCommunications) > 0
          THEN Effect(commEvent,
                      IF Configured(options) THEN commEvent ELSE <<>>,
                      c.posted, c.threw)
          ELSE NoEffect
    IN Then(statusStep, commStep)

\* ------------------------------------------------------------ the monitor
VARIABLES
  file,           \* the state file (.aws-case-state.json)
  pc,             \* where the invocation is: idle, checking, exited
  options,        \* githubToken and repository of the invocation (set or not)
  cases,          \* response.cases of the invocation's poll
  previousState,  \* loadState's result
  i,              \* index into cases of the next case to check
  events,         \* events detected by the invocation, in order
  notified,       \* notify calls made by the invocation, in order
  posted,         \* comments posted by the invocation, in order
  saveOutcome,    \* none, ok, failed-intact, failed-partial
  exitCode,       \* the process' exit code, once pc = "exited"
  fileAtStart,    \* history: the state file when the invocation started
  writes,         \* history: writeFileSync calls of the invocation
  watched,        \* history: a <<caseId, timeCreated>> that an earlier
                  \* invocation emitted as new, every invocation since then
                  \* having completed and saved (NoPair: none is watched)
  chkInput,       \* SpecCheck: the arguments of one checkCaseChanges call
  chkEffect,      \* SpecCheck: <<>>, or <<what the call did>>
  provider,       \* SpecRetry: the API a call goes to (openai, claude)
  apiKey,         \* the API key the call was given ('' or a key)
  retries,        \* retryCount of the innermost callOpenAI / callClaude
  requests,       \* history: requests the call has sent upstream
  waits,          \* history: the timers the call has set, in ms, in order
  callPc,         \* idle, awaiting (a response), sleeping (a timer), settled
  callOutcome,    \* what the call's promise settled with
  fed,            \* history: the responses the upstream has given the call
  genEnv,         \* SpecGen: the environment of the request generator
  genPc,          \* idle, generating, posting, failed, done
  genError,       \* the error main's catch has caught
  genPosts,       \* history: the comments main tried to post, in order
  genExit,        \* the process' exit code once genPc = "done"
  flow,           \* SpecFlow: the flow run (create, reply) and its options
  flowPc,         \* idle, calling, confirming, notifying, settled
  flowError,      \* the error the flow's catch has caught
  flowPosts,      \* history: the comments the flow tried to post, in order
  flowOutcome,    \* what the flow's promise settled with
  client,         \* SpecGateway: the fields of one AWSSupportClient
  clock,          \* Date.now() of the process
  credentialsFile,\* ~/.aws/credentials, as the user has written it
  replies,        \* history: what the client's operations settled with
  comment,        \* SpecExtract: the comment, as the lines its author wrote
  extracted,      \* <<>>, or <<what extractReplyMessage returned>>
  issue,          \* SpecParse: the issue body, as its headings and lines
  parsed,         \* <<>>, or <<what parseIssueBody returned>>
  runs            \* SpecOverlap: two monitor runs on one state file

monitorVars ==
  <<file, pc, options, cases, previousState, i, events, notified, posted,
    saveOutcome, exitCode, fileAtStart, writes, watched>>
chkVars == <<chkInput, chkEffect>>
callArgs == <<provider, apiKey>>
retryVars ==
  <<callArgs, retries, requests, waits, callPc, callOutcome, fed>>
genVars == <<genEnv, genPc, genError, genPosts, genExit>>
flowVars == <<flow, flowPc, flowError, flowPosts, flowOutcome>>
gatewayVars == <<client, clock, credentialsFile, replies>>
replyVars == <<comment, extracted>>
issueVars == <<issue, parsed>>
overlapVars == <<runs>>
extVars ==
  <<retryVars, genVars, flowVars, gatewayVars, replyVars, issueVars,
    overlapVars>>
vars == <<monitorVars, chkVars, extVars>>

\* What each other specification's variables hold while it is not running.
NoOutcome ==
  [kind |-> "pending", content |-> Undefined, statusCode |-> Undefined,
   type |-> "undefined", message |-> ""]
RetryIdle ==
  /\ provider = "openai"
  /\ apiKey = "key"
  /\ retries = 0
  /\ requests = 0
  /\ waits = <<>>
  /\ callPc = "idle"
  /\ callOutcome = NoOutcome
  /\ fed = <<>>
NoEnv ==
  [issueBody |-> FALSE, issueNumber |-> FALSE, repository |-> "",
   githubToken |-> FALSE, aiApiKey |-> FALSE, aiProvider |-> "openai"]
GenIdle ==
  /\ genEnv = NoEnv
  /\ genPc = "idle"
  /\ genError = NoOutcome
  /\ genPosts = <<>>
  /\ genExit = Undefined
NoFlow ==
  [name |-> "create", input |-> "none", githubToken |-> FALSE,
   repository |-> FALSE, issueNumber |-> FALSE, mockMode |-> FALSE]
FlowIdle ==
  /\ flow = NoFlow
  /\ flowPc = "idle"
  /\ flowError = NoOutcome
  /\ flowPosts = <<>>
  /\ flowOutcome = NoOutcome
\* this.credentials = null.
NoCredentials == <<>>
NoClient ==
  [profile |-> <<"default">>, mockMode |-> FALSE,
   credentials |-> NoCredentials]
\* There is no ~/.aws/credentials.
NoCredentialsFile == [exists |-> FALSE, stray |-> FALSE, sections |-> <<>>]
GatewayIdle ==
  /\ client = NoClient
  /\ clock = 0
  /\ credentialsFile = NoCredentialsFile
  /\ replies = <<>>
ExtractIdle == comment = <<>> /\ extracted = <<>>
ParseIdle ==
  /\ issue = [preamble |-> <<>>, sections |-> <<>>]
  /\ parsed = <<>>
TextIdle == ExtractIdle /\ ParseIdle
OverlapIdle == runs = <<>>
ExtIdle ==
  /\ RetryIdle /\ GenIdle /\ FlowIdle /\ GatewayIdle /\ TextIdle
  /\ OverlapIdle

\* GITHUB_REPOSITORY is set by the runner; GITHUB_TOKEN may be missing.
OptionSets ==
  {[githubToken |-> TRUE, repository |-> TRUE],
   [githubToken |-> FALSE, repository |-> TRUE]}

NoPair == <<Null, Null>>

\* <<caseId, timeCreated>> of the communications a list of events reports new.
EmittedPairs(es) ==
  UNION {{<<es[k].caseId, es[k].communications[j].timeCreated>> :
            j \in 1..Len(es[k].communications)} : k \in 1..Len(es)}

NoInput ==
  [caseData |-> [caseId |-> 1, status |-> "opened", communications |-> <<>>],
   previousState |-> EmptyState,
   options |-> [githubToken |-> FALSE, repository |-> FALSE]]

\* An invocation about to start, with f at the path of the state file.
InitInvocation(f) ==
  /\ file = f
  /\ pc = "idle"
  /\ options \in OptionSets
  /\ cases = <<>>
  /\ previousState = EmptyState
  /\ i = 1
  /\ events = <<>>
  /\ notified = <<>>
  /\ posted = <<>>
  /\ saveOutcome = "none"
  /\ exitCode = 0
  /\ fileAtStart = f
  /\ writes = 0
  /\ watched = NoPair

\* The first invocation finds no state file.
InitMonitor == InitInvocation(MissingFile)

Init ==
  /\ InitMonitor
  /\ chkInput = NoInput
  /\ chkEffect = <<>>
  /\ ExtIdle

\* monitorAllCases up to the loop: describeCases answers with a case list,
\* one of `responses`, then loadState reads the state file.
Describe(responses) ==
  /\ pc = "idle"
  /\ \E response \in responses :
       /\ cases' = response
       /\ previousState' = loadState(file)
  /\ i' = 1
  /\ pc' = "checking"
  /\ UNCHANGED <<file, options, events, notified, posted, saveOutcome,
                 exitCode, fileAtStart, writes, watched, chkVars, extVars>>

DescribeCases == Describe(Polls)

\* The same step with the shorter polls of SpecDedup.
DescribeCasesDedup == Describe(DedupPolls)

\* describeCases rejects (it always does outside mock mode): the catch of
\* monitorAllCases logs and rethrows, main catches and calls process.exit(1).
DescribeCasesFails ==
  /\ pc = "idle"
  /\ pc' = "exited"
  /\ exitCode' = 1
  /\ UNCHANGED <<file, options, cases, previousState, i, events, notified,
                 posted, saveOutcome, fileAtStart, writes, watched, chkVars,
                 extVars>>

\* One turn of the loop: await checkCaseChanges(caseData, previousState, ...).
\* A rejected post rejects the check and monitorAllCases with it, and main
\* calls process.exit(1).
CheckCase ==
  /\ pc = "checking"
  /\ i <= Len(cases)
  /\ \E failAt \in 0..(MaxComms + 1) :
       LET e == checkCaseChanges(cases[i], previousState, options, failAt)
       IN /\ events' = events \o e.events
          /\ notified' = notified \o e.notified
          /\ posted' = posted \o e.posted
          /\ pc' = IF e.threw THEN "exited" ELSE "checking"
          /\ exitCode' = IF e.threw THEN 1 ELSE exitCode
  /\ i' = i + 1
  /\ UNCHANGED <<file, options, cases, previousState, saveOutcome,
                 fileAtStart, writes, watched, chkVars, extVars>>

\* writeFileSync opens the file truncating it and then writes: it replaces
\* the content, or throws before the file is touched, or throws with the file
\* cut short.
WriteOutcomes == {"ok", "failed-intact", "failed-partial"}

writeFileSync(stateFile, cs, outcome) ==
  CASE outcome = "ok" -> ListFile(cs)
    [] outcome = "failed-intact" -> stateFile
    [] outcome = "failed-partial" -> PartialFile

\* A monitor that saves the poll before the checks have all been made.
SaveState_BeforeChecks ==
  /\ pc = "checking"
  /\ \E outcome \in WriteOutcomes :
       /\ file' = writeFileSync(file, cases, outcome)
       /\ saveOutcome' = outcome
       /\ exitCode' = 0
  /\ writes' = writes + 1
  /\ pc' = IF i > Len(cases) THEN "exited" ELSE "checking"
  /\ UNCHANGED <<options, cases, previousState, i, events, notified, posted,
                 fileAtStart, watched, chkVars, extVars>>

\* After the loop: saveState(stateFile, response.cases).  saveState catches
\* what writeFileSync throws and logs it, so it returns normally whatever the
\* outcome; monitorAllCases then resolves and main ends with exit code 0.
SaveState ==
  /\ pc = "checking"
  /\ i > Len(cases)
  /\ \E outcome \in WriteOutcomes :
       /\ file' = writeFileSync(file, cases, outcome)
       /\ saveOutcome' = outcome
       /\ exitCode' = 0
  /\ writes' = writes + 1
  /\ pc' = "exited"
  /\ UNCHANGED <<options, cases, previousState, i, events, notified, posted,
                 fileAtStart, watched, chkVars, extVars>>

\* The scheduler starts the next invocation: a new process, which shares
\* nothing with the last one but the state file.
StartInvocation(w) ==
  /\ pc = "exited"
  /\ pc' = "idle"
  /\ options' \in OptionSets
  /\ cases' = <<>>
  /\ previousState' = EmptyState
  /\ i' = 1
  /\ events' = <<>>
  /\ notified' = <<>>
  /\ posted' = <<>>
  /\ saveOutcome' = "none"
  /\ exitCode' = 0
  /\ fileAtStart' = file
  /\ writes' = 0
  /\ watched' = w
  /\ UNCHANGED <<file, chkVars, extVars>>

NextInvocation == StartInvocation(NoPair)

\* The same step, recording in `watched` one of the communications emitted
\* so far by a row of invocations that all completed and saved.
NextInvocationWatching ==
  \E w \in (IF saveOutcome # "ok" THEN {NoPair}
            ELSE IF watched # NoPair THEN {watched}
            ELSE {NoPair} \cup EmittedPairs(events)) :
    StartInvocation(w)

Next ==
  \/ DescribeCases
  \/ DescribeCasesFails
  \/ CheckCase
  \/ SaveState
  \/ NextInvocation

Spec == Init /\ [][Next]_vars

NextDedup ==
  \/ DescribeCasesDedup
  \/ DescribeCasesFails
  \/ CheckCase
  \/ SaveState
  \/ NextInvocationWatching

SpecDedup == Init /\ [][NextDedup]_vars

\* ------------------------------------- one invocation, on any state file
\* The first invocation finds at the path of the state file whatever was
\* left there.
InitLoad ==
  /\ \E f \in ForeignFiles : InitInvocation(f)
  /\ ExtIdle
  /\ chkInput = NoInput
  /\ chkEffect = <<>>

NextLoad ==
  \/ DescribeCases
  \/ DescribeCasesFails
  \/ CheckCase
  \/ SaveState

SpecLoad == InitLoad /\ [][NextLoad]_vars

\* ----------------------------------------------- one check, on any input
\* checkCaseChanges is exported: it is applied here to every status of the
\* upstream, to communication lists that may repeat a timestamp, and to a
\* previous state with or without a snapshot of the case.
ChkCommLists == SeqsUpTo([timeCreated : 1..ChkNumTimes], ChkMaxComms)
ChkCases == [caseId : {1}, status : Statuses, communications : ChkCommLists]

ChkInputs ==
  [caseData : ChkCases,
   previousState : {EmptyState} \cup {(1 :> c) : c \in ChkCases},
   options : OptionSets]

InitCheck ==
  /\ InitMonitor
  /\ Configured(options)
  /\ chkInput \in ChkInputs
  /\ chkEffect = <<>>
  /\ ExtIdle

ApplyCheck ==
  /\ chkEffect = <<>>
  /\ chkEffect' =
       <<checkCaseChanges(chkInput.caseData, chkInput.previousState,
                          chkInput.options, 0)>>
  /\ UNCHANGED <<chkInput, monitorVars, extVars>>

SpecCheck == InitCheck /\ [][ApplyCheck]_vars

\* ------------------------------------------------- the AI call, retried
\* callOpenAI and callClaude (generate-aws-support-request.js): a call sends
\* its request at once; the handler of the response's end settles the call's
\* promise, or sets a timer and settles it with what a recursive call, made
\* when the timer fires, settles with.

\* maxRetries: the default, which the one caller of each function leaves.
MaxRetries == 3

Providers == {"openai", "claude"}

\* res.headers['retry-after']: absent, or a number of seconds.  (An HTTP date
\* there reads as absent: parseInt gives NaN for both.)
NoHint == Undefined
Hints == {NoHint} \cup 0..MaxHint \cup {LongHint}

StatusCodes == {200, 429, 500}

\* The body of a response: not JSON; JSON with an error object, which has a
\* type; JSON with neither error nor content; JSON with the content in the
\* shape the called API answers in (choices[0].message.content of OpenAI,
\* content[0].text of Claude).
ErrorTypes == {"rate_limit_error", "server_error"}
NotJson == [kind |-> "notjson", type |-> "undefined", content |-> Undefined]
ErrorBody(t) == [kind |-> "error", type |-> t, content |-> Undefined]
PlainBody == [kind |-> "plain", type |-> "undefined", content |-> Undefined]
ContentBody(c) == [kind |-> "content", type |-> "undefined", content |-> c]
Bodies ==
  {NotJson, PlainBody} \cup {ErrorBody(t) : t \in ErrorTypes}
    \cup {ContentBody(c) : c \in 1..NumContents}

Responses == [status : StatusCodes, retryAfterHeader : Hints, body : Bodies]

\* The request's 'error' event instead of a response.
RequestError ==
  [status |-> Undefined, retryAfterHeader |-> NoHint, body |-> NotJson]

\* What a promise settles with.
Resolved(content) ==
  [kind |-> "resolved", content |-> content, statusCode |-> Undefined,
   type |-> "undefined", message |-> ""]
Rejected(statusCode, type, message) ==
  [kind |-> "rejected", content |-> Undefined, statusCode |-> statusCode,
   type |-> type, message |-> message]

\* What the handler of a response's end does: settle, or wait and call again.
Settle(o) == [act |-> "settle", wait |-> 0, outcome |-> o]
Retry(ms) == [act |-> "retry", wait |-> ms, outcome |-> NoOutcome]

\* parseInt of the header, and JavaScript's a || b on numbers.
NaN == -2
parseInt(header) == IF header = NoHint THEN NaN ELSE header
OrElse(a, b) == IF a = NaN \/ a = 0 THEN b ELSE a

\* The timer's delay in ms: parseInt(retry-after) || 2^retryCount * 1000.
retryAfter(res, retryCount) ==
  OrElse(parseInt(res.retryAfterHeader), (2 ^ retryCount) * 1000)

\* A handler that retries while retryCount is at most maxRetries.
callOpenAI_OneMoreRetry(res, retryCount, maxRetries) ==
  IF res.body.kind = "notjson"
  THEN Settle(Rejected(res.status, "undefined", "SyntaxError"))
  ELSE IF res.status = 429 /\ retryCount <= maxRetries
  THEN Retry(retryAfter(res, retryCount))
  ELSE IF res.body.kind = "error"
  THEN Settle(Rejected(res.status, res.body.type, "OpenAI API error"))
  ELSE IF res.body.kind = "content"
  THEN Settle(Resolved(res.body.content))
  ELSE Settle(Rejected(res.status, "undefined", "TypeError"))

\* A handler whose catch does not attach the status code.
callOpenAI_UntaggedCatch(res, retryCount, maxRetries) ==
  IF res.body.kind = "notjson"
  THEN Settle(Rejected(Undefined, "undefined", "SyntaxError"))
  ELSE IF res.status = 429 /\ retryCount < maxRetries
  THEN Retry(retryAfter(res, retryCount))
  ELSE IF res.body.kind = "error"
  THEN Settle(Rejected(res.status, res.body.type, "OpenAI API error"))
  ELSE IF res.body.kind = "content"
  THEN Settle(Resolved(res.body.content))
  ELSE Settle(Rejected(Undefined, "undefined", "TypeError"))

\* The handler of the end of callOpenAI's response.  JSON.parse comes first
\* and what it throws is caught, tagged with the status code and rejected;
\* then a 429 with retries left is retried; then a body with an error object
\* rejects with its type and the status code; any other body is read as a
\* success, and the TypeError of a body without content is caught as well.
callOpenAI(res, retryCount, maxRetries) ==
  IF res.body.kind = "notjson"
  THEN Settle(Rejected(res.status, "undefined", "SyntaxError"))
  ELSE IF res.status = 429 /\ retryCount < maxRetries
  THEN Retry(retryAfter(res, retryCount))
  ELSE IF res.body.kind = "error"
  THEN Settle(Rejected(res.status, res.body.type, "OpenAI API error"))
  ELSE IF res.body.kind = "content"
  THEN Settle(Resolved(res.body.content))
  ELSE Settle(Rejected(res.status, "undefined", "TypeError"))

\* A handler that retries a 500 as it retries a 429.
callClaude_RetriesServerErrors(res, retryCount, maxRetries) ==
  IF res.body.kind = "notjson"
  THEN Settle(Rejected(res.status, "undefined", "SyntaxError"))
  ELSE IF res.status \in {429, 500} /\ retryCount < maxRetries
  THEN Retry(retryAfter(res, retryCount))
  ELSE IF res.body.kind = "error"
  THEN Settle(Rejected(res.status, res.body.type, "Claude API error"))
  ELSE IF res.body.kind = "content"
  THEN Settle(Resolved(res.body.content))
  ELSE Settle(Rejected(res.status, "undefined", "TypeError"))

\* A handler that ignores the retry-after header.
callClaude_FixedBackoff(res, retryCount, maxRetries) ==
  IF res.body.kind = "notjson"
  THEN Settle(Rejected(res.status, "undefined", "SyntaxError"))
  ELSE IF res.status = 429 /\ retryCount < maxRetries
  THEN Retry((2 ^ retryCount) * 1000)
  ELSE IF res.body.kind = "error"
  THEN Settle(Rejected(res.status, res.body.type, "Claude API error"))
  ELSE IF res.body.kind = "content"
  THEN Settle(Resolved(res.body.content))
  ELSE Settle(Rejected(res.status, "undefined", "TypeError"))

\* The handler of the end of callClaude's response.
callClaude(res, retryCount, maxRetries) ==
  IF res.body.kind = "notjson"
  THEN Settle(Rejected(res.status, "undefined", "SyntaxError"))
  ELSE IF res.status = 429 /\ retryCount < maxRetries
  THEN Retry(retryAfter(res, retryCount))
  ELSE IF res.body.kind = "error"
  THEN Settle(Rejected(res.status, res.body.type, "Claude API error"))
  ELSE IF res.body.kind = "content"
  THEN Settle(Resolved(res.body.content))
  ELSE Settle(Rejected(res.status, "undefined", "TypeError"))

\* generateSupportRequest's choice of the function.
OnEnd(p, res, retryCount, maxRetries) ==
  IF p = "openai" THEN callOpenAI(res, retryCount, maxRetries)
  ELSE callClaude(res, retryCount, maxRetries)

\* The promise of a call given what the upstream answers its requests with,
\* in order: the requests it has sent, the timers it has set and what it has
\* settled with.
RECURSIVE Called(_, _, _, _)
Called(p, upstream, retryCount, maxRetries) ==
  IF upstream = <<>>
  THEN [requests |-> 1, waits |-> <<>>, outcome |-> NoOutcome]
  ELSE IF Head(upstream) = RequestError
  THEN [requests |-> 1, waits |-> <<>>,
        outcome |-> Rejected(Undefined, "undefined", "request error")]
  ELSE
    LET d == OnEnd(p, Head(upstream), retryCount, maxRetries)
        r == Called(p, Tail(upstream), retryCount + 1, maxRetries)
    IN IF d.act = "retry"
       THEN [requests |-> 1 + r.requests, waits |-> <<d.wait>> \o r.waits,
             outcome |-> r.outcome]
       ELSE [requests |-> 1, waits |-> <<>>, outcome |-> d.outcome]

\* The other specifications' variables, at rest.
MonitorIdle == InitMonitor /\ Configured(options) /\ OverlapIdle
ChkIdle == chkInput = NoInput /\ chkEffect = <<>>
notRetry ==
  <<monitorVars, chkVars, genVars, flowVars, gatewayVars, replyVars,
    issueVars, overlapVars>>

\* callOpenAI(prompt, apiKey) or callClaude(prompt, apiKey) has been called
\* and has sent its request.
InitRetry ==
  /\ MonitorIdle /\ ChkIdle /\ GenIdle /\ FlowIdle /\ GatewayIdle
  /\ TextIdle
  /\ provider \in Providers
  /\ apiKey = "key"
  /\ retries = 0
  /\ requests = 1
  /\ waits = <<>>
  /\ callPc = "awaiting"
  /\ callOutcome = NoOutcome
  /\ fed = <<>>

\* A call in which what a retry resolves with does not resolve the promise
\* of the call that made it.
ResponseEnds_Unchained ==
  /\ callPc = "awaiting"
  /\ \E res \in Responses :
       LET d == OnEnd(provider, res, retries, MaxRetries)
       IN /\ fed' = Append(fed, res)
          /\ waits' = IF d.act = "retry" THEN Append(waits, d.wait) ELSE waits
          /\ callPc' = IF d.act = "retry" THEN "sleeping" ELSE "settled"
          /\ callOutcome' = IF retries > 0 /\ d.outcome.kind = "resolved"
                            THEN NoOutcome ELSE d.outcome
  /\ UNCHANGED <<callArgs, retries, requests, notRetry>>

\* res.on('end'): the response to the request in flight has come.  What the
\* innermost call settles with settles every call that awaits it.
ResponseEnds ==
  /\ callPc = "awaiting"
  /\ \E res \in Responses :
       LET d == OnEnd(provider, res, retries, MaxRetries)
       IN /\ fed' = Append(fed, res)
          /\ waits' = IF d.act = "retry" THEN Append(waits, d.wait) ELSE waits
          /\ callPc' = IF d.act = "retry" THEN "sleeping" ELSE "settled"
          /\ callOutcome' = d.outcome
  /\ UNCHANGED <<callArgs, retries, requests, notRetry>>

\* req.on('error', reject): the request in flight fails without a response.
RequestErrors ==
  /\ callPc = "awaiting"
  /\ fed' = Append(fed, RequestError)
  /\ callPc' = "settled"
  /\ callOutcome' = Rejected(Undefined, "undefined", "request error")
  /\ UNCHANGED <<callArgs, retries, requests, waits, notRetry>>

\* The timer fires: the recursive call, with retryCount + 1, sends its request.
TimerFires ==
  /\ callPc = "sleeping"
  /\ retries' = retries + 1
  /\ requests' = requests + 1
  /\ callPc' = "awaiting"
  /\ UNCHANGED <<callArgs, waits, callOutcome, fed, notRetry>>

NextRetry ==
  \/ ResponseEnds
  \/ RequestErrors
  \/ TimerFires

SpecRetry == InitRetry /\ [][NextRetry]_vars

\* generateSupportRequest(issueBody, apiKey, provider) is about to be
\* called, with any provider name and with a key or the empty string.
InitRequest ==
  /\ MonitorIdle /\ ChkIdle /\ GenIdle /\ FlowIdle /\ GatewayIdle
  /\ TextIdle
  /\ provider \in Providers \cup {"unsupported"}
  /\ apiKey \in {"", "key"}
  /\ retries = 0
  /\ requests = 0
  /\ waits = <<>>
  /\ callPc = "idle"
  /\ callOutcome = NoOutcome
  /\ fed = <<>>

\* generateSupportRequest: the call of callOpenAI or callClaude with the
\* prompt and the key as given, which sends the first request, or the throw
\* for any other provider.
GenerateSupportRequest ==
  /\ callPc = "idle"
  /\ IF provider \in Providers
     THEN /\ requests' = 1
          /\ callPc' = "awaiting"
          /\ UNCHANGED callOutcome
     ELSE /\ callOutcome' =
               Rejected(Undefined, "undefined",
                        "Unsupported provider: " \o provider)
          /\ callPc' = "settled"
          /\ UNCHANGED requests
  /\ UNCHANGED <<callArgs, retries, waits, fed, notRetry>>

NextRequest ==
  \/ GenerateSupportRequest
  \/ ResponseEnds
  \/ RequestErrors
  \/ TimerFires

SpecRequest == InitRequest /\ [][NextRequest]_vars

\* ------------------------------------------- the request generator's main
\* process.env as main reads it: each variable set or not, GITHUB_REPOSITORY
\* also set without a slash, AI_PROVIDER also set to an API main knows not.
GenEnvs ==
  [issueBody : BOOLEAN, issueNumber : BOOLEAN,
   repository : {"", "owner/repo", "owner"}, githubToken : BOOLEAN,
   aiApiKey : BOOLEAN, aiProvider : Providers \cup {"other"}]

\* const [owner, repo] = repository.split('/'), each as set or not.
split(repository) ==
  [owner |-> repository # "", repo |-> repository = "owner/repo"]

\* What generateSupportRequest settles with for a provider it knows: what a
\* call of the provider's function may settle with.
GenOutcomes(p) ==
  {OnEnd(p, res, MaxRetries, MaxRetries).outcome : res \in Responses}
    \cup {Rejected(Undefined, "undefined", "request error")}

\* postIssueComment: the promise resolves (2xx with a JSON body), rejects
\* (another status, a request error) or is never settled because JSON.parse
\* throws in the response handler (2xx with another body), which ends the
\* process as an uncaught exception, with exit code 1.  Without a repo in
\* the path the tracker answers 404.
PostOutcomes(env) ==
  IF split(env.repository).repo THEN {"ok", "rejected", "threw"}
  ELSE {"rejected"}

Comment(kind, result) == [kind |-> kind, result |-> result]

notGen ==
  <<monitorVars, chkVars, retryVars, flowVars, gatewayVars, replyVars,
    issueVars, overlapVars>>

InitGen ==
  /\ MonitorIdle /\ ChkIdle /\ RetryIdle /\ FlowIdle /\ GatewayIdle
  /\ TextIdle
  /\ genEnv \in GenEnvs
  /\ genPc = "idle"
  /\ genError = NoOutcome
  /\ genPosts = <<>>
  /\ genExit = Undefined

\* main up to the first await: the checks of the environment, which throw,
\* and generateSupportRequest up to its call, which throws for a provider
\* that is neither openai nor claude.
GenStart ==
  /\ genPc = "idle"
  /\ LET ready == /\ genEnv.issueBody /\ genEnv.issueNumber
                  /\ genEnv.repository # "" /\ genEnv.githubToken
                  /\ genEnv.aiApiKey
         known == genEnv.aiProvider \in Providers
     IN /\ genPc' = IF ready /\ known THEN "generating" ELSE "failed"
        /\ genError' =
             IF ~ready
             THEN Rejected(Undefined, "undefined", "variable is required")
             ELSE IF ~known
             THEN Rejected(Undefined, "undefined", "Unsupported provider")
             ELSE genError
  /\ UNCHANGED <<genEnv, genPosts, genExit, notGen>>

\* await generateSupportRequest(...): the call settles.
Generate ==
  /\ genPc = "generating"
  /\ \E o \in GenOutcomes(genEnv.aiProvider) :
       /\ genPc' = IF o.kind = "resolved" THEN "posting" ELSE "failed"
       /\ genError' = IF o.kind = "resolved" THEN genError ELSE o
  /\ UNCHANGED <<genEnv, genPosts, genExit, notGen>>

\* await postIssueComment(...) with the generated request; when it resolves
\* main returns and the process exits 0.
PostRequest ==
  /\ genPc = "posting"
  /\ \E result \in PostOutcomes(genEnv) :
       /\ genPosts' = Append(genPosts, Comment("request", result))
       /\ genPc' = IF result = "rejected" THEN "failed" ELSE "done"
       /\ genError' = IF result = "rejected"
                      THEN Rejected(Undefined, "undefined", "GitHub API error")
                      ELSE genError
       /\ genExit' = CASE result = "ok" -> 0
                       [] result = "threw" -> 1
                       [] result = "rejected" -> genExit
  /\ UNCHANGED <<genEnv, notGen>>

\* A catch that posts the notice whatever the error caught.
Catch_NotifiesAnyError ==
  /\ genPc = "failed"
  /\ LET to == split(genEnv.repository)
         notify == /\ to.owner /\ to.repo
                   /\ genEnv.issueNumber /\ genEnv.githubToken
     IN IF notify
        THEN \E result \in PostOutcomes(genEnv) :
               genPosts' = Append(genPosts, Comment("notice", result))
        ELSE genPosts' = genPosts
  /\ genPc' = "done"
  /\ genExit' = 1
  /\ UNCHANGED <<genEnv, genError, notGen>>

\* main's catch: for an error with statusCode 429, and with owner, repo,
\* issue number and token all set, one post of the rate-limit notice, whose
\* rejection is caught and logged; then process.exit(1) in every case.
Catch ==
  /\ genPc = "failed"
  /\ LET to == split(genEnv.repository)
         notify == /\ genError.statusCode = 429
                   /\ to.owner /\ to.repo
                   /\ genEnv.issueNumber /\ genEnv.githubToken
     IN IF notify
        THEN \E result \in PostOutcomes(genEnv) :
               genPosts' = Append(genPosts, Comment("notice", result))
        ELSE genPosts' = genPosts
  /\ genPc' = "done"
  /\ genExit' = 1
  /\ UNCHANGED <<genEnv, genError, notGen>>

NextGen ==
  \/ GenStart
  \/ Generate
  \/ PostRequest
  \/ Catch

SpecGen == InitGen /\ [][NextGen]_vars

\* ------------------------------------------------------------ the gateway
\* AWSSupportClient (aws-support-client.js).  Outside mock mode every
\* operation throws: the calls of the AWS SDK are commented out.
PlanRequired ==
  Rejected(Undefined, "undefined", "Business/Enterprise plan required")

\* ---- the String methods the scripts use, on sequences of tokens
Whitespace == {" ", "\n"}

RECURSIVE trimStart(_)
trimStart(str) ==
  IF str # <<>> /\ Head(str) \in Whitespace THEN trimStart(Tail(str)) ELSE str

RECURSIVE trimEnd(_)
trimEnd(str) ==
  IF str # <<>> /\ str[Len(str)] \in Whitespace
  THEN trimEnd(SubSeq(str, 1, Len(str) - 1))
  ELSE str

trim(str) == trimEnd(trimStart(str))

startsWith(str, token) == str # <<>> /\ Head(str) = token
endsWith(str, token) == str # <<>> /\ str[Len(str)] = token
includes(str, token) == \E k \in 1..Len(str) : str[k] = token

\* str.indexOf(token), counted from 1 (0: not found).
indexOf(str, token) ==
  IF includes(str, token)
  THEN CHOOSE k \in 1..Len(str) :
         str[k] = token /\ \A j \in 1..(k - 1) : str[j] # token
  ELSE 0

\* str.split(separator): the pieces between the separators, in order.
RECURSIVE splitOn(_, _)
splitOn(str, separator) ==
  IF includes(str, separator)
  THEN LET k == indexOf(str, separator)
       IN <<SubSeq(str, 1, k - 1)>>
            \o splitOn(SubSeq(str, k + 1, Len(str)), separator)
  ELSE <<str>>

\* parts.join(separator).
RECURSIVE join(_, _)
join(parts, separator) ==
  IF parts = <<>> THEN <<>>
  ELSE IF Len(parts) = 1 THEN parts[1]
  ELSE parts[1] \o separator \o join(Tail(parts), separator)

\* ---- ~/.aws/credentials
\* The file as its author wrote it: sections of key = value lines under a
\* [name] header, maybe after a stray key = value line under no header.  A
\* value is a plain one or one that ends in '=', as base64 text does.
Profiles == {"default", "other"}
CredentialKeys ==
  {"aws_access_key_id", "aws_secret_access_key", "aws_session_token"}
CredentialValues == {<<"AKIA">>, <<"FwoG", "=">>}
Pairs == [key : CredentialKeys, value : CredentialValues]
PairLists ==
  {ps \in SeqsUpTo(Pairs, MaxPairs) :
     \A a, b \in 1..Len(ps) : ps[a].key = ps[b].key => a = b}
Sections == [name : Profiles, pairs : PairLists]
CredentialsFiles ==
  {NoCredentialsFile}
    \cup [exists : {TRUE}, stray : BOOLEAN,
          sections : SeqsUpTo(Sections, MaxSections)]

\* The text of the file: one line per header and per pair, each ended by a
\* newline.
PairLine(pair) == <<pair.key, " ", "=", " ">> \o pair.value
SectionLines(section) ==
  <<<<"[", section.name, "]">>>>
    \o [k \in 1..Len(section.pairs) |-> PairLine(section.pairs[k])]
RECURSIVE FileLines(_)
FileLines(sections) ==
  IF sections = <<>> THEN <<>>
  ELSE SectionLines(Head(sections)) \o FileLines(Tail(sections))
StrayLine == <<"aws_access_key_id", " ", "=", " ", "AKIA">>
readFileSync(credentialsPath) ==
  join((IF credentialsPath.stray THEN <<StrayLine>> ELSE <<>>)
         \o FileLines(credentialsPath.sections),
       <<"\n">>) \o <<"\n">>

\* new AWSSupportClient(opts): profile is opts.profile || 'default' and
\* mockMode is opts.mockMode || false.
AWSSupportClient(opts) ==
  [profile |-> IF opts.profile = <<>> THEN <<"default">> ELSE opts.profile,
   mockMode |-> opts.mockMode,
   credentials |-> NoCredentials]

\* The body of parseCredentials' loop, over the lines left.  currentProfile
\* is <<>> while it is null; credentials maps the keys assigned so far.
RECURSIVE parseLines(_, _, _, _)
parseLines(lines, profile, currentProfile, credentials) ==
  IF lines = <<>> THEN credentials
  ELSE
    LET trimmed == trim(Head(lines))
        parts == splitOn(trimmed, "=")
        key == trim(parts[1])
        value == trim(parts[2])
    IN IF startsWith(trimmed, "[") /\ endsWith(trimmed, "]")
       THEN parseLines(Tail(lines), profile,
                       SubSeq(trimmed, 2, Len(trimmed) - 1), credentials)
       ELSE IF /\ currentProfile # <<>>
               /\ includes(trimmed, "=")
               /\ currentProfile = profile
       THEN parseLines(Tail(lines), profile, currentProfile,
                       (key :> value) @@ credentials)
       ELSE parseLines(Tail(lines), profile, currentProfile, credentials)

\* parseCredentials(content, profile): null (NoCredentials) without a key
\* id or a secret; sessionToken is left out where it is undefined.
parseCredentials(content, profile) ==
  LET credentials == parseLines(splitOn(content, "\n"), profile, <<>>, <<>>)
      has(key) ==
        <<key>> \in DOMAIN credentials /\ credentials[<<key>>] # <<>>
  IN IF ~has("aws_access_key_id") \/ ~has("aws_secret_access_key")
     THEN NoCredentials
     ELSE IF <<"aws_session_token">> \in DOMAIN credentials
     THEN [accessKeyId |-> credentials[<<"aws_access_key_id">>],
           secretAccessKey |-> credentials[<<"aws_secret_access_key">>],
           sessionToken |-> credentials[<<"aws_session_token">>]]
     ELSE [accessKeyId |-> credentials[<<"aws_access_key_id">>],
           secretAccessKey |-> credentials[<<"aws_secret_access_key">>]]

\* The trimmed lines that start with '[' and end with ']', in order.
Headers(content) ==
  LET lines == splitOn(content, "\n")
  IN SelectSeq([k \in 1..Len(lines) |-> trim(lines[k])],
               LAMBDA t : startsWith(t, "[") /\ endsWith(t, "]"))

\* A getAvailableProfiles that lists a name once, however often it occurs.
getAvailableProfiles_Once(content) ==
  LET headers == Headers(content)
      names == [k \in 1..Len(headers) |->
                  [at |-> k,
                   name |-> SubSeq(headers[k], 2, Len(headers[k]) - 1)]]
      first == SelectSeq(names,
                         LAMBDA n : \A j \in 1..(n.at - 1) :
                                      names[j].name # n.name)
  IN [k \in 1..Len(first) |-> first[k].name]

getAvailableProfiles(content) ==
  LET headers == Headers(content)
  IN [k \in 1..Len(headers) |-> SubSeq(headers[k], 2, Len(headers[k]) - 1)]

\* What a synchronous method did: it returned a value or threw an error.
Returned(value) == [kind |-> "returned", value |-> value]
Threw(message) == [kind |-> "threw", message |-> message]

FileNotFound ==
  <<"AWS credentials file not found: ", "~/.aws/credentials", "\n",
    "Please configure AWS CLI with: aws configure">>
ProfileNotFound(profile, content) ==
  <<"Profile '">> \o profile
    \o <<"' not found in ", "~/.aws/credentials", "\n",
         "Available profiles: ">>
    \o join(getAvailableProfiles(content), <<", ">>)

\* loadCredentials on the file at credentialsPath: the client's fields
\* afterwards and what the call did.
loadCredentials(this, credentialsPath) ==
  IF ~credentialsPath.exists
  THEN [this |-> this, result |-> Threw(FileNotFound)]
  ELSE
    LET content == readFileSync(credentialsPath)
        credentials == parseCredentials(content, this.profile)
    IN IF credentials = NoCredentials
       THEN [this |-> this,
             result |-> Threw(ProfileNotFound(this.profile, content))]
       ELSE [this |-> [this EXCEPT !.credentials = credentials],
             result |-> Returned(credentials)]

\* The mock results: a case id made of Date.now() (the display id is cut
\* from it), the fixture list stamped with the time of the call, and
\* { result: true }.
mockCreateCase(caseData, now) == Resolved(now)
mockDescribeCases(opts, now) == Resolved(now)
mockAddCommunication(caseId, communicationBody) == Resolved(1)
\* The list a mockDescribeCases result holds: the one case 'case-mock-12345'
\* (case 1), opened, with one communication; stamp is the content of the
\* result, the time both timeCreated fields were taken at.
mockCases(stamp) ==
  <<[caseId |-> 1, status |-> "opened",
     communications |-> <<[timeCreated |-> stamp]>>]>>

createCase(this, caseData, now) ==
  IF this.mockMode THEN mockCreateCase(caseData, now) ELSE PlanRequired

\* A describeCases that answers from the mock once credentials are loaded.
describeCases_MockWithCredentials(this, opts, now) ==
  IF this.mockMode \/ this.credentials # NoCredentials
  THEN mockDescribeCases(opts, now)
  ELSE PlanRequired

describeCases(this, opts, now) ==
  IF this.mockMode THEN mockDescribeCases(opts, now) ELSE PlanRequired

addCommunicationToCase(this, caseId, communicationBody) ==
  IF this.mockMode THEN mockAddCommunication(caseId, communicationBody)
  ELSE PlanRequired

\* One operation made on the client, as the caller saw it.
Reply(op, arg, this, result) ==
  [op |-> op, arg |-> arg, mockMode |-> this.mockMode, result |-> result]

notGateway ==
  <<monitorVars, chkVars, retryVars, genVars, flowVars, replyVars,
    issueVars, overlapVars>>

\* The clients a caller may construct, and the credentials files of
\* SpecGateway: none, or one complete section.
Clients ==
  {AWSSupportClient([profile |-> p, mockMode |-> m]) :
     p \in {<<>>, <<"other">>}, m \in BOOLEAN}
Complete(name, value) ==
  [name |-> name,
   pairs |-> <<[key |-> "aws_access_key_id", value |-> value],
               [key |-> "aws_secret_access_key", value |-> value],
               [key |-> "aws_session_token", value |-> value]>>]
GatewayFiles ==
  {NoCredentialsFile}
    \cup {[exists |-> TRUE, stray |-> FALSE,
           sections |-> <<Complete(name, value)>>] :
            name \in Profiles, value \in CredentialValues}

InitGateway ==
  /\ MonitorIdle /\ ChkIdle /\ RetryIdle /\ GenIdle /\ FlowIdle
  /\ TextIdle
  /\ client \in Clients
  /\ clock = 0
  /\ credentialsFile \in GatewayFiles
  /\ replies = <<>>

\* Time passes.
Tick ==
  /\ clock < MaxClock
  /\ clock' = clock + 1
  /\ UNCHANGED <<client, credentialsFile, replies, notGateway>>

\* The credentials file is written anew (aws configure, rotated keys).
WriteCredentialsFile ==
  /\ \E f \in GatewayFiles \ {credentialsFile} : credentialsFile' = f
  /\ UNCHANGED <<client, clock, replies, notGateway>>

CreateCase ==
  /\ Len(replies) < MaxOps
  /\ \E caseData \in {"", "subject"} :
       replies' = Append(replies, Reply("createCase", caseData, client,
                                        createCase(client, caseData, clock)))
  /\ UNCHANGED <<client, clock, credentialsFile, notGateway>>

DescribeCasesOf ==
  /\ Len(replies) < MaxOps
  /\ \E opts \in {"", "includeResolvedCases"} :
       replies' = Append(replies, Reply("describeCases", opts, client,
                                        describeCases(client, opts, clock)))
  /\ UNCHANGED <<client, clock, credentialsFile, notGateway>>

AddCommunicationToCase ==
  /\ Len(replies) < MaxOps
  /\ \E body \in {"", "message"} :
       replies' =
         Append(replies, Reply("addCommunicationToCase", body, client,
                               addCommunicationToCase(client, 1, body)))
  /\ UNCHANGED <<client, clock, credentialsFile, notGateway>>

\* A call of loadCredentials on the file as it is.
LoadCredentials ==
  /\ Len(replies) < MaxOps
  /\ LET r == loadCredentials(client, credentialsFile)
     IN /\ client' = r.this
        /\ replies' =
             Append(replies, Reply("loadCredentials", "", client, r.result))
  /\ UNCHANGED <<clock, credentialsFile, notGateway>>

NextGateway ==
  \/ Tick
  \/ WriteCredentialsFile
  \/ CreateCase
  \/ DescribeCasesOf
  \/ AddCommunicationToCase
  \/ LoadCredentials

SpecGateway == InitGateway /\ [][NextGateway]_vars

\* One loadCredentials of a live client on any credentials file.
InitResolve ==
  /\ MonitorIdle /\ ChkIdle /\ RetryIdle /\ GenIdle /\ FlowIdle
  /\ TextIdle
  /\ client \in {c \in Clients : ~c.mockMode}
  /\ clock = 0
  /\ credentialsFile \in CredentialsFiles
  /\ replies = <<>>

Resolve == replies = <<>> /\ LoadCredentials

SpecResolve == InitResolve /\ [][Resolve]_vars

\* ------------------------------------------- the creation and reply flows
\* createSupportCaseFromIssue (create-support-case.js) and replyToCase
\* (reply-to-case.js), as exported: the text given is a string from which
\* the case data or the reply is taken ("ok"), a comment without a reply
\* ("none", for replyToCase) or not a string ("invalid"); the options hold
\* token, repository, issue number and mockMode or do not.  The issue number
\* of the creation flow is an argument, which its caller always gives.
FlowInputs ==
  {f \in [name : {"create", "reply"}, input : {"ok", "none", "invalid"},
          githubToken : BOOLEAN, repository : BOOLEAN, issueNumber : BOOLEAN,
          mockMode : BOOLEAN] :
     f.name = "create" => (f.issueNumber /\ f.input # "none")}

\* The condition under which either flow posts a comment.
NotifyConfigured(f) ==
  f.githubToken /\ f.repository /\ (f.name = "reply" => f.issueNumber)

\* client.createCase(caseData) or client.addCommunicationToCase(caseId,
\* replyMessage) on the client the flow constructs.
GatewayResult(f, now) ==
  LET this ==
        AWSSupportClient([profile |-> <<>>, mockMode |-> f.mockMode])
  IN IF f.name = "create" THEN createCase(this, "subject", now)
     ELSE addCommunicationToCase(this, 1, "message")

\* postToGitHub: resolves, rejects ("GitHub API error", a request error), or
\* throws in the response handler on a 2xx answer that is not JSON, which
\* ends the process with the promise unsettled.
GitHubError == Rejected(Undefined, "undefined", "GitHub API error")
FlowPostOutcomes == {"ok", "rejected", "threw"}

notFlow ==
  <<monitorVars, chkVars, retryVars, genVars, gatewayVars, replyVars,
    issueVars, overlapVars>>

InitFlow ==
  /\ MonitorIdle /\ ChkIdle /\ RetryIdle /\ GenIdle /\ GatewayIdle
  /\ TextIdle
  /\ flow \in FlowInputs
  /\ flowPc = "idle"
  /\ flowError = NoOutcome
  /\ flowPosts = <<>>
  /\ flowOutcome = NoOutcome

\* The flow up to the end of the gateway operation: parseIssueBody or
\* extractReplyMessage (a TypeError on what is not a string; null returned
\* when there is no reply), new AWSSupportClient, await of the operation.
FlowCall ==
  /\ flowPc = "idle"
  /\ LET r == GatewayResult(flow, clock)
     IN CASE flow.input = "invalid" ->
               /\ flowError' = Rejected(Undefined, "undefined", "TypeError")
               /\ flowPc' = "caught"
               /\ flowOutcome' = flowOutcome
          [] flow.input = "none" ->
               /\ flowOutcome' = Resolved(Null)
               /\ flowPc' = "settled"
               /\ flowError' = flowError
          [] flow.input = "ok" /\ r.kind = "rejected" ->
               /\ flowError' = r
               /\ flowPc' = "caught"
               /\ flowOutcome' = flowOutcome
          [] flow.input = "ok" /\ r.kind = "resolved" ->
               /\ flowPc' =
                    IF NotifyConfigured(flow) THEN "confirming" ELSE "settled"
               /\ flowOutcome' =
                    IF NotifyConfigured(flow) THEN flowOutcome ELSE r
               /\ flowError' = flowError
  /\ UNCHANGED <<flow, flowPosts, notFlow>>

\* await postCaseIdToIssue(...) / postReplyConfirmation(...), then return.
FlowConfirm ==
  /\ flowPc = "confirming"
  /\ \E result \in FlowPostOutcomes :
       /\ flowPosts' = Append(flowPosts, Comment("confirmation", result))
       /\ flowPc' = CASE result = "ok" -> "settled"
                      [] result = "rejected" -> "caught"
                      [] result = "threw" -> "crashed"
       /\ flowOutcome' = IF result = "ok" THEN GatewayResult(flow, clock)
                        ELSE flowOutcome
       /\ flowError' = IF result = "rejected" THEN GitHubError ELSE flowError
  /\ UNCHANGED <<flow, notFlow>>

\* The catch: await postErrorToIssue(...) / postReplyError(...) when token,
\* repository (and issue number) are given, then throw error.  The await is
\* in no try: a rejected post rejects the flow in place of the throw.
FlowCatch ==
  /\ flowPc = "caught"
  /\ IF NotifyConfigured(flow)
     THEN \E result \in FlowPostOutcomes :
            /\ flowPosts' = Append(flowPosts, Comment("error", result))
            /\ flowPc' = IF result = "threw" THEN "crashed" ELSE "settled"
            /\ flowOutcome' = CASE result = "ok" -> flowError
                                [] result = "rejected" -> GitHubError
                                [] result = "threw" -> flowOutcome
     ELSE /\ flowPosts' = flowPosts
          /\ flowPc' = "settled"
          /\ flowOutcome' = flowError
  /\ UNCHANGED <<flow, flowError, notFlow>>

NextFlow ==
  \/ FlowCall
  \/ FlowConfirm
  \/ FlowCatch

SpecFlow == InitFlow /\ [][NextFlow]_vars

\* --------------------------------------------------- the reply extractor
\* extractReplyMessage (reply-to-case.js).  A comment is the lines its
\* author wrote; its text is the lines joined by newlines.  A line is empty,
\* a fence, words, or holds the command token '/reply'.
\* The delimiter fence: three backticks.
Fence == "fence"
CommentLines ==
  {<<>>, <<Fence>>, <<"X">>, <<"Y">>,
   <<"/reply">>,
   <<"/reply", " ", "X">>,
   <<"/reply", " ", "Y">>,
   <<" ", "/reply", " ", "Y", " ">>,
   <<"see", " ", "/reply", " ", "X">>}
Comments == SeqsUpTo(CommentLines, MaxCommentLines)
TextOf(lines) == join(lines, <<"\n">>)

\* What extractReplyMessage returns: null or a string.
NoMessage == [found |-> FALSE, message |-> <<>>]
Message(message) == [found |-> TRUE, message |-> message]

\* The loop over the lines: the first line that starts with '/reply' and
\* has text after it gives the message.
RECURSIVE CommandLine(_)
CommandLine(lines) ==
  IF lines = <<>> THEN NoMessage
  ELSE
    LET trimmed == trim(Head(lines))
    IN IF startsWith(trimmed, "/reply") /\ trim(Tail(trimmed)) # <<>>
       THEN Message(trim(Tail(trimmed)))
       ELSE CommandLine(Tail(lines))

\* str.match(/\/reply\s+([\s\S]+?)(?:```|$)/)[1], the match sought from
\* position from on: at the leftmost '/reply' that whitespace follows, the
\* shortest non-empty text after all that whitespace which a fence or the
\* end of the string follows; where the whitespace runs to the end of the
\* string, its last character (if it has two).
RECURSIVE replyMatch(_, _)
replyMatch(str, from) ==
  IF ~\E p \in from..Len(str) : str[p] = "/reply" THEN NoMessage
  ELSE
    LET p == CHOOSE p \in from..Len(str) :
               str[p] = "/reply" /\ \A j \in from..(p - 1) : str[j] # "/reply"
        n == CHOOSE n \in 0..(Len(str) - p) :
               /\ \A j \in 1..n : str[p + j] \in Whitespace
               /\ p + n + 1 > Len(str) \/ str[p + n + 1] \notin Whitespace
        q == p + n + 1
        fences == {k \in (q + 1)..Len(str) : str[k] = Fence}
        end == IF fences = {} THEN Len(str)
               ELSE (CHOOSE k \in fences : \A j \in fences : k <= j) - 1
    IN IF n = 0 THEN replyMatch(str, p + 1)
       ELSE IF q <= Len(str) THEN Message(SubSeq(str, q, end))
       ELSE IF n >= 2 THEN Message(<<str[Len(str)]>>)
       ELSE replyMatch(str, p + 1)

\* An extractReplyMessage that returns the match as it is.
extractReplyMessage_Untrimmed(commentBody) ==
  LET command == CommandLine(splitOn(commentBody, "\n"))
      matched == replyMatch(commentBody, 1)
  IN IF command.found THEN command
     ELSE IF matched.found THEN matched
     ELSE NoMessage

extractReplyMessage(commentBody) ==
  LET command == CommandLine(splitOn(commentBody, "\n"))
      matched == replyMatch(commentBody, 1)
  IN IF command.found THEN command
     ELSE IF matched.found THEN Message(trim(matched.message))
     ELSE NoMessage

notExtract ==
  <<monitorVars, chkVars, retryVars, genVars, flowVars, gatewayVars,
    issueVars, overlapVars>>

InitExtract ==
  /\ MonitorIdle /\ ChkIdle /\ RetryIdle /\ GenIdle /\ FlowIdle
  /\ GatewayIdle /\ ParseIdle
  /\ comment \in Comments
  /\ extracted = <<>>

Extract ==
  /\ extracted = <<>>
  /\ extracted' = <<extractReplyMessage(TextOf(comment))>>
  /\ UNCHANGED <<comment, notExtract>>

SpecExtract == InitExtract /\ [][Extract]_vars

\* ---- replyToCase on the text of a comment
\* replyToCase(commentBody, caseId, options) is about to be called with a
\* comment of the issue and any options; flow.input says whether the
\* comment holds a reply.
NoReply(replyMessage) == ~replyMessage.found \/ replyMessage.message = <<>>
notReply ==
  <<monitorVars, chkVars, retryVars, genVars, issueVars, overlapVars,
    client, clock, credentialsFile>>
InitReply ==
  /\ MonitorIdle /\ ChkIdle /\ RetryIdle /\ GenIdle /\ GatewayIdle
  /\ ParseIdle
  /\ comment \in Comments
  /\ extracted = <<>>
  /\ flow \in [name : {"reply"},
                input : {IF NoReply(extractReplyMessage(TextOf(comment)))
                         THEN "none" ELSE "ok"},
                githubToken : BOOLEAN, repository : BOOLEAN,
                issueNumber : BOOLEAN, mockMode : BOOLEAN]
  /\ flowPc = "idle"
  /\ flowError = NoOutcome
  /\ flowPosts = <<>>
  /\ flowOutcome = NoOutcome

\* A replyToCase that returns null only when extractReplyMessage does.
ReplyToCase_NullOnly ==
  /\ flowPc = "idle"
  /\ LET replyMessage == extractReplyMessage(TextOf(comment))
         this ==
           AWSSupportClient([profile |-> <<>>, mockMode |-> flow.mockMode])
         r == addCommunicationToCase(this, 1, replyMessage.message)
     IN /\ extracted' = <<replyMessage>>
        /\ IF ~replyMessage.found
           THEN /\ flowOutcome' = Resolved(Null)
                /\ flowPc' = "settled"
                /\ UNCHANGED <<replies, flowError>>
           ELSE /\ replies' =
                     Append(replies,
                            Reply("addCommunicationToCase",
                                  replyMessage.message, this, r))
                /\ flowError' = IF r.kind = "rejected" THEN r ELSE flowError
                /\ flowPc' =
                     IF r.kind = "rejected" THEN "caught"
                     ELSE IF NotifyConfigured(flow) THEN "confirming"
                     ELSE "settled"
                /\ flowOutcome' =
                     IF r.kind = "resolved" /\ ~NotifyConfigured(flow)
                     THEN r ELSE flowOutcome
  /\ UNCHANGED <<flow, flowPosts, comment, notReply>>

\* replyToCase up to the end of the gateway operation: the reply is taken
\* from the comment; `if (!replyMessage) return null` (null and '' are
\* falsy); new AWSSupportClient; await client.addCommunicationToCase(caseId,
\* replyMessage), recorded in replies with the message passed.
ReplyToCase ==
  /\ flowPc = "idle"
  /\ LET replyMessage == extractReplyMessage(TextOf(comment))
         this ==
           AWSSupportClient([profile |-> <<>>, mockMode |-> flow.mockMode])
         r == addCommunicationToCase(this, 1, replyMessage.message)
     IN /\ extracted' = <<replyMessage>>
        /\ IF NoReply(replyMessage)
           THEN /\ flowOutcome' = Resolved(Null)
                /\ flowPc' = "settled"
                /\ UNCHANGED <<replies, flowError>>
           ELSE /\ replies' =
                     Append(replies,
                            Reply("addCommunicationToCase",
                                  replyMessage.message, this, r))
                /\ flowError' = IF r.kind = "rejected" THEN r ELSE flowError
                /\ flowPc' =
                     IF r.kind = "rejected" THEN "caught"
                     ELSE IF NotifyConfigured(flow) THEN "confirming"
                     ELSE "settled"
                /\ flowOutcome' =
                     IF r.kind = "resolved" /\ ~NotifyConfigured(flow)
                     THEN r ELSE flowOutcome
  /\ UNCHANGED <<flow, flowPosts, comment, notReply>>

NextReply ==
  \/ ReplyToCase
  \/ FlowConfirm
  \/ FlowCatch

SpecReply == InitReply /\ [][NextReply]_vars

\* ------------------------------------------------------ the issue parser
\* parseIssueBody and mapServiceCode (create-support-case.js).  The
\* headings and severity words of the issue form are written in Latin
\* letters here:
\*   summary  事象の概要      details   詳細説明    steps    再現手順
\*   remedies 試した対処方法  severity  重要度      service  対象AWSサービス
\*   category 問い合わせカテゴリ (a heading of the form that the code
\*   does not read)
\*   Kinkyu 緊急   Kou 高   Tsujo 通常   Tei 低
TextHeadings == {"summary", "details", "steps", "remedies", "category"}

\* The lines under a heading, as the author wrote them: text (every token
\* of a text line is one character), a severity, a service name.
TextLineLists ==
  {<<>>, <<<<"a">>>>, <<<<" ", "b", " ">>, <<>>, <<"a">>>>}
SeverityLines ==
  {<<"Critical", "(", "Kinkyu", ")">>, <<"Kinkyu">>, <<"High">>, <<"Kou">>,
   <<"Normal">>, <<"Tsujo">>, <<"Low", "(", "Tei", ")">>,
   <<"High", " ", "Critical">>, <<"Tsujo", " ", "Kou">>}
SeverityLineLists ==
  {<<>>, <<<<>>, <<" ", "Kinkyu">>>>, <<<<"Low">>, <<"Critical">>>>}
    \cup {<<line>> : line \in SeverityLines}
ServiceNames ==
  {<<"EC2">>, <<"RDS">>, <<"S3">>, <<"Lambda">>, <<"VPC">>, <<"DynamoDB">>,
   <<"constructor">>}
ServiceLineLists ==
  {<<>>, <<<<>>, <<" ", "EC2", " ">>>>, <<<<"DynamoDB">>, <<"EC2">>>>}
    \cup {<<name>> : name \in ServiceNames}
\* A line of n characters without a blank, and summaries that are longer
\* than the subject may be: one long line, and a line that ends one
\* character before the limit followed by a second line.
LongLine(n) == [k \in 1..n |-> IF k % 2 = 1 THEN "a" ELSE "b"]
LongLineLists ==
  {<<LongLine(MaxLineLength)>>,
   <<LongLine(MaxLineLength - 2), <<" ", "c", "d">>>>}
IssueSections ==
  [heading : TextHeadings, lines : TextLineLists]
    \cup [heading : {"summary"}, lines : LongLineLists]
    \cup [heading : {"severity"}, lines : SeverityLineLists]
    \cup [heading : {"service"}, lines : ServiceLineLists]
\* An issue body: lines before the first heading, then sections.
NoIssue == [preamble |-> <<>>, sections |-> <<>>]
Issues ==
  [preamble : {<<>>, <<<<"Critical">>, <<"a">>>>},
   sections : SeqsUpTo(IssueSections, MaxHeadings)]

\* The text of an issue body, as the issue form writes it: a blank line
\* after every heading and after every section.
RECURSIVE SectionsText(_)
SectionsText(sections) ==
  IF sections = <<>> THEN <<>>
  ELSE <<<<"###", " ", Head(sections).heading>>, <<>>>>
         \o Head(sections).lines \o <<<<>>>> \o SectionsText(Tail(sections))
IssueText(body) == TextOf(body.preamble \o SectionsText(body.sections))

\* The loop of parseIssueBody over the lines left: sections maps every
\* heading met so far to the lines pushed under it; currentSection is <<>>
\* while it is null.
RECURSIVE sectionsOf(_, _, _)
sectionsOf(lines, currentSection, sections) ==
  IF lines = <<>> THEN sections
  ELSE
    LET line == Head(lines)
        heading == trim(trimStart(Tail(line)))
    IN IF startsWith(line, "###")
       THEN sectionsOf(Tail(lines), heading, (heading :> <<>>) @@ sections)
       ELSE IF currentSection # <<>> /\ trim(line) # <<>>
       THEN sectionsOf(Tail(lines), currentSection,
                       (currentSection :>
                          Append(sections[currentSection], trim(line)))
                         @@ sections)
       ELSE sectionsOf(Tail(lines), currentSection, sections)

\* A cut that keeps one character more.
substring_OneMore(str, length) ==
  SubSeq(str, 1, IF Len(str) < length + 1 THEN Len(str) ELSE length + 1)

\* str.substring(0, length), every token being one character.
substring(str, length) ==
  SubSeq(str, 1, IF Len(str) < length THEN Len(str) ELSE length)

\* A severity mapping that looks for High before Critical.
severityOf_HighFirst(severityText) ==
  IF includes(severityText, "High") \/ includes(severityText, "Kou")
  THEN "high"
  ELSE IF includes(severityText, "Critical")
            \/ includes(severityText, "Kinkyu")
  THEN "urgent"
  ELSE IF includes(severityText, "Normal")
            \/ includes(severityText, "Tsujo")
  THEN "normal"
  ELSE "low"

severityOf(severityText) ==
  IF includes(severityText, "Critical") \/ includes(severityText, "Kinkyu")
  THEN "urgent"
  ELSE IF includes(severityText, "High") \/ includes(severityText, "Kou")
  THEN "high"
  ELSE IF includes(severityText, "Normal")
            \/ includes(severityText, "Tsujo")
  THEN "normal"
  ELSE "low"

\* mapServiceCode's table, the members an object literal inherits from
\* Object.prototype (looking one up gives a function or an object, not a
\* code), and the lookup mapping[serviceName] || 'general-info'.
mapping ==
  (<<"EC2">> :> "amazon-elastic-compute-cloud-linux")
    @@ (<<"RDS">> :> "amazon-relational-database-service")
    @@ (<<"S3">> :> "amazon-simple-storage-service")
    @@ (<<"Lambda">> :> "aws-lambda")
    @@ (<<"ECS">> :> "amazon-elastic-container-service")
    @@ (<<"CloudFront">> :> "amazon-cloudfront")
    @@ (<<"Route53">> :> "amazon-route53")
    @@ (<<"VPC">> :> "amazon-virtual-private-cloud")
ObjectPrototype ==
  {<<"constructor">>, <<"toString">>, <<"toLocaleString">>, <<"valueOf">>,
   <<"hasOwnProperty">>, <<"isPrototypeOf">>, <<"propertyIsEnumerable">>,
   <<"__proto__">>}
mapServiceCode(serviceName) ==
  IF serviceName \in DOMAIN mapping THEN mapping[serviceName]
  ELSE IF serviceName \in ObjectPrototype THEN "[object]"
  ELSE "general-info"

\* The first element of a list, or '' ([0] || '').
first(list) == IF list = <<>> THEN <<>> ELSE list[1]

\* A body that gives every heading, also of a section that is absent.
bodyOf_EveryHeading(sections) ==
  LET linesOf(name) ==
        IF <<name>> \in DOMAIN sections
        THEN join(sections[<<name>>], <<"\n">>)
        ELSE <<>>
  IN join(<<<<"## details">>, linesOf("details"),
            <<"\n", "## steps">>, linesOf("steps"),
            <<"\n", "## remedies">>, linesOf("remedies")>>,
          <<"\n">>)

\* data.body: bodyParts, joined.
bodyOf(sections) ==
  LET part(name, title) ==
        IF <<name>> \in DOMAIN sections
        THEN <<title, join(sections[<<name>>], <<"\n">>)>>
        ELSE <<>>
  IN join(part("details", <<"## details">>)
            \o part("steps", <<"\n", "## steps">>)
            \o part("remedies", <<"\n", "## remedies">>),
          <<"\n">>)

parseIssueBody(issueBody) ==
  LET sections == sectionsOf(splitOn(issueBody, "\n"), <<>>, <<>>)
      has(name) == <<name>> \in DOMAIN sections
  IN [subject |-> IF has("summary")
                  THEN substring(join(sections[<<"summary">>], <<" ">>),
                                 SubjectLength)
                  ELSE <<>>,
      body |-> bodyOf(sections),
      severity |-> IF has("severity")
                   THEN severityOf(first(sections[<<"severity">>]))
                   ELSE "low",
      category |-> "other",
      serviceCode |-> IF has("service")
                      THEN mapServiceCode(first(sections[<<"service">>]))
                      ELSE "general-info"]

notParse ==
  <<monitorVars, chkVars, retryVars, genVars, flowVars, gatewayVars,
    replyVars, overlapVars>>

InitParse ==
  /\ MonitorIdle /\ ChkIdle /\ RetryIdle /\ GenIdle /\ FlowIdle
  /\ GatewayIdle /\ ExtractIdle
  /\ issue \in Issues
  /\ parsed = <<>>

Parse ==
  /\ parsed = <<>>
  /\ parsed' = <<parseIssueBody(IssueText(issue))>>
  /\ UNCHANGED <<issue, notParse>>

SpecParse == InitParse /\ [][Parse]_vars

\* ------------------------------------------- two monitor runs at once
\* Two processes of monitor-cases.js started on the same state file, with
\* nothing between them but the file: each polls and loads, then checks and
\* saves, and the steps of the two come in any order.  runs[r] holds what
\* run r has in memory and, as history, the ordinals of its two steps.
Runs == {1, 2}
NoRun ==
  [pc |-> "idle", cases |-> <<>>, previousState |-> EmptyState,
   events |-> <<>>, polledAt |-> 0, savedAt |-> 0, saveOutcome |-> "none"]
\* The steps the runs have made so far.
StepsOf(run) ==
  IF run.pc = "idle" THEN 0 ELSE IF run.pc = "checking" THEN 1 ELSE 2
StepsDone == StepsOf(runs[1]) + StepsOf(runs[2])

notOverlap ==
  <<pc, options, cases, previousState, i, events, notified, posted,
    saveOutcome, exitCode, fileAtStart, writes, watched, chkVars, retryVars,
    genVars, flowVars, gatewayVars, replyVars, issueVars>>

\* The state file is missing or holds the poll an earlier run saved.
InitOverlap ==
  /\ \E f \in {MissingFile} \cup {ListFile(cs) : cs \in DedupPolls} :
       InitInvocation(f)
  /\ Configured(options)
  /\ ChkIdle /\ RetryIdle /\ GenIdle /\ FlowIdle /\ GatewayIdle
  /\ TextIdle
  /\ runs = [r \in Runs |-> NoRun]

\* monitorAllCases of run r up to the loop: describeCases answers, then
\* loadState reads the file as it is now.
OverlapDescribe(r) ==
  /\ runs[r].pc = "idle"
  /\ \E response \in DedupPolls :
       runs' = [runs EXCEPT ![r] =
                  [@ EXCEPT !.pc = "checking",
                            !.cases = response,
                            !.previousState = loadState(file),
                            !.polledAt = StepsDone + 1]]
  /\ UNCHANGED <<file, notOverlap>>

\* The events the loop over the polled cases detects, in order.
RECURSIVE EventsOf(_, _, _)
EventsOf(cs, state, opts) ==
  IF cs = <<>> THEN <<>>
  ELSE checkCaseChanges(Head(cs), state, opts, 0).events
         \o EventsOf(Tail(cs), state, opts)

\* A run that checks and exits without saving its poll.
OverlapFinish_NoSave(r) ==
  /\ runs[r].pc = "checking"
  /\ \E outcome \in WriteOutcomes :
       runs' = [runs EXCEPT ![r] =
                  [@ EXCEPT !.pc = "exited",
                            !.events = EventsOf(runs[r].cases,
                                                runs[r].previousState,
                                                options),
                            !.savedAt = StepsDone + 1,
                            !.saveOutcome = outcome]]
  /\ UNCHANGED <<file, notOverlap>>

\* The rest of monitorAllCases of run r: the loop of checkCaseChanges
\* against the state it loaded, then saveState of its poll.
OverlapFinish(r) ==
  /\ runs[r].pc = "checking"
  /\ \E outcome \in WriteOutcomes :
       /\ file' = writeFileSync(file, runs[r].cases, outcome)
       /\ runs' = [runs EXCEPT ![r] =
                     [@ EXCEPT !.pc = "exited",
                               !.events = EventsOf(runs[r].cases,
                                                   runs[r].previousState,
                                                   options),
                               !.savedAt = StepsDone + 1,
                               !.saveOutcome = outcome]]
  /\ UNCHANGED notOverlap

NextOverlap ==
  \/ \E r \in Runs : OverlapDescribe(r)
  \/ \E r \in Runs : OverlapFinish(r)

SpecOverlap == InitOverlap /\ [][NextOverlap]_vars

\* ------------------------------------------------------------- properties
\* The events of one type in a list of events, in order.
EventsOfType(es, t) == SelectSeq(es, LAMBDA e : e.type = t)

TimesOf(comms) == {comms[k].timeCreated : k \in 1..Len(comms)}

\* SpecCheck: the call has been made on a case that has a snapshot.
ChkDiffed == chkEffect # <<>> /\ 1 \in DOMAIN chkInput.previousState

\* C3: for a case that has a prior snapshot, checkCaseChanges emits exactly
\* one StatusChanged(previous, current) event when the polled status differs
\* from the snapshot's and none when they are equal; with the status and the
\* set of communication timestamps both unchanged it emits nothing; and no
\* pair of statuses makes it throw.
C3_StatusChangedExactlyOnce ==
  ChkDiffed =>
    LET cur == chkInput.caseData
        prev == chkInput.previousState[1]
        es == chkEffect[1].events
    IN /\ ~chkEffect[1].threw
       /\ EventsOfType(es, "StatusChanged") =
            IF cur.status # prev.status
            THEN <<StatusChanged(1, prev.status, cur.status)>>
            ELSE <<>>
       /\ (/\ cur.status = prev.status
           /\ TimesOf(cur.communications) = TimesOf(prev.communications))
          => es = <<>>

\* opened -> resolved has fired one StatusChanged(opened, resolved).
C3_Witness ==
  /\ ChkDiffed
  /\ chkInput.previousState[1].status = "opened"
  /\ chkInput.caseData.status = "resolved"
  /\ EventsOfType(chkEffect[1].events, "StatusChanged") =
       <<StatusChanged(1, "opened", "resolved")>>

\* The indices of the communications of cur whose timeCreated no
\* communication of prev has.
NewIdx(cur, prev) ==
  {k \in 1..Len(cur) :
     \A j \in 1..Len(prev) : prev[j].timeCreated # cur[k].timeCreated}

\* r lists the communications of cur at the indices NewIdx, in cur's order.
IsNewOf(r, cur, prev) ==
  /\ Len(r) = Cardinality(NewIdx(cur, prev))
  /\ \A k \in NewIdx(cur, prev) :
       r[Cardinality({m \in NewIdx(cur, prev) : m <= k})] = cur[k]

\* C4: for a case that has a prior snapshot, the communications reported new
\* are exactly those of the poll whose timeCreated the snapshot does not have,
\* in poll order, and one NewCommunications event carries them if and only if
\* there is at least one, whether or not the status changed.
C4_NewCommunicationsExact ==
  ChkDiffed =>
    LET cur == chkInput.caseData.communications
        prev == chkInput.previousState[1].communications
        ns == EventsOfType(chkEffect[1].events, "NewCommunications")
    IN IF NewIdx(cur, prev) = {} THEN ns = <<>>
       ELSE /\ Len(ns) = 1
            /\ ns[1].caseId = 1
            /\ IsNewOf(ns[1].communications, cur, prev)

\* Two of three polled communications are new, the status being unchanged.
C4_Witness ==
  /\ ChkDiffed
  /\ chkInput.caseData.status = chkInput.previousState[1].status
  /\ Len(chkInput.caseData.communications) = 3
  /\ Len(chkInput.previousState[1].communications) = 2
  /\ Len(chkEffect[1].events) = 1
  /\ Len(chkEffect[1].events[1].communications) = 2
  /\ chkEffect[1].events[1].communications[1].timeCreated = 2
  /\ chkEffect[1].events[1].communications[2].timeCreated = 2

\* The invocation has ended, and how.
Exited == pc = "exited"
Saved == Exited /\ saveOutcome = "ok"

\* The place of a case id in the poll (0: not polled).
PollIndex(id) ==
  IF id \in CaseIdsOf(cases)
  THEN CHOOSE k \in 1..Len(cases) : cases[k].caseId = id
  ELSE 0

\* C1: a snapshot, once in the state file, is never deleted: every case the
\* state file held when an invocation started is still in it after the
\* invocation's save, also when the poll no longer returns the case.
C1_SnapshotNeverDeleted ==
  (Saved /\ fileAtStart.kind = "list") =>
    CaseIdsOf(fileAtStart.cases) \subseteq DOMAIN loadState(file)

\* C2: over a row of invocations that each complete and save, no
\* communication (caseId, timeCreated) is emitted as new by more than one
\* invocation.
C2_NoCommunicationEmittedTwice ==
  watched \notin EmittedPairs(events)

\* C5: a polled case that has no snapshot in the loaded state produces no
\* event, no notify call and no comment in that invocation, whatever its
\* status and communications; the invocation's save creates its snapshot,
\* which is what the next invocation loads for it.
C5_NewCaseSilentThenSnapshotted ==
  /\ \A k \in 1..Len(cases) :
       cases[k].caseId \notin DOMAIN previousState =>
         /\ \A n \in 1..Len(events) : events[n].caseId # cases[k].caseId
         /\ \A n \in 1..Len(notified) : notified[n].caseId # cases[k].caseId
         /\ \A n \in 1..Len(posted) : posted[n].caseId # cases[k].caseId
  /\ Saved =>
       \A k \in 1..Len(cases) :
         /\ cases[k].caseId \in DOMAIN loadState(file)
         /\ loadState(file)[cases[k].caseId] = cases[k]

\* A case with two communications and no snapshot has been checked, with a
\* snapshot of another case loaded, and the save has created its snapshot.
C5_Witness ==
  /\ Saved
  /\ DOMAIN previousState = {2}
  /\ Len(cases) = 2
  /\ cases[1].caseId = 1
  /\ Len(cases[1].communications) = 2
  /\ cases[1].status # previousState[2].status
  /\ events = <<>>
  /\ 1 \in DOMAIN loadState(file)

\* log, a list of notify calls or of comments, is in the order of C6.
InPollOrder(log, timeOf(_)) ==
  \A a, b \in 1..Len(log) :
    a < b =>
      /\ PollIndex(log[a].caseId) <= PollIndex(log[b].caseId)
      /\ log[a].caseId = log[b].caseId =>
           /\ log[b].type = "NewCommunications"
           /\ log[a].type = "NewCommunications" =>
                LET cs == cases[PollIndex(log[a].caseId)].communications
                IN \E x, y \in 1..Len(cs) :
                     /\ x < y
                     /\ cs[x].timeCreated = timeOf(log[a])
                     /\ cs[y].timeCreated = timeOf(log[b])

\* The communications of a notify call are in the order of the poll.
CallInPollOrder(call) ==
  LET cs == cases[PollIndex(call.caseId)].communications
      ns == call.communications
  IN \A a, b \in 1..Len(ns) :
       a < b =>
         \E x, y \in 1..Len(cs) : x < y /\ cs[x] = ns[a] /\ cs[y] = ns[b]

\* C6: within one invocation the StatusChanged notification of a case comes
\* before its NewCommunications notification, the new communications of a
\* case are notified in poll order, and every notification of a case comes
\* before any notification of a case that is later in the poll.  Stated of
\* the notify calls and of the comments posted.
C6_NotificationOrder ==
  /\ \A a, b \in 1..Len(notified) :
       a < b =>
         /\ PollIndex(notified[a].caseId) <= PollIndex(notified[b].caseId)
         /\ notified[a].caseId = notified[b].caseId =>
              /\ notified[a].type = "StatusChanged"
              /\ notified[b].type = "NewCommunications"
  /\ \A a \in 1..Len(notified) : CallInPollOrder(notified[a])
  /\ InPollOrder(posted, LAMBDA c : c.timeCreated)

\* Both notifications have been made for the first polled case, the second
\* of them with two communications, and then one for the second case.
C6_Witness ==
  /\ Len(notified) = 3
  /\ notified[1].type = "StatusChanged"
  /\ notified[2].type = "NewCommunications"
  /\ notified[1].caseId = notified[2].caseId
  /\ Len(notified[2].communications) = 2
  /\ notified[3].caseId # notified[1].caseId

\* C7: whatever happens to the write, after an invocation the state file
\* holds the complete old list or the complete new list.
C7_SaveIsAtomic ==
  (Exited /\ fileAtStart.kind = "list") =>
    (file = fileAtStart \/ file = ListFile(cases))

\* C8: an invocation writes the state file at most once, and only when
\* describeCases and the check of every polled case have completed; an
\* invocation that failed leaves the state file as it was when it started.
C8_SingleWriteAfterAllChecks ==
  /\ writes <= 1
  /\ writes = 1 => (Exited /\ exitCode = 0 /\ i = Len(cases) + 1)
  /\ writes = 0 => file = fileAtStart
  /\ (Exited /\ exitCode = 1) => (writes = 0 /\ file = fileAtStart)

\* An invocation has checked two cases and then replaced a list by the poll.
C8_SavedWitness ==
  /\ Saved
  /\ writes = 1
  /\ Len(cases) = 2
  /\ i = 3
  /\ fileAtStart.kind = "list"
  /\ file # fileAtStart

\* C10: a failure to save the state file makes the invocation exit non-zero.
C10_SaveFailureExitsNonZero ==
  (Exited /\ saveOutcome \in {"failed-intact", "failed-partial"}) =>
    exitCode # 0

\* ------------------------------------------------ C11: foreign state files
\* The state file is not a list of case records.
IsForeign(f) ==
  f.kind # "list" \/ \E k \in 1..Len(f.cases) : f.cases[k].caseId \notin CaseIds
\* The state file holds no case record at all.
HoldsNoCaseRecord(f) ==
  \A k \in 1..Len(f.cases) : f.cases[k].caseId \notin CaseIds
\* describeCases rejected: the invocation ended before loadState.
DescribeFailed ==
  Exited /\ exitCode = 1 /\ saveOutcome = "none" /\ i = 1 /\ cases = <<>>

\* C11: when the state file is missing, unreadable, not valid JSON, or valid
\* JSON that is not a list of case records, loadState returns the empty
\* state, no polled case is diffed, and the invocation runs to completion.
C11_ForeignFileLoadsEmpty ==
  (IsForeign(fileAtStart) /\ pc # "idle") =>
    /\ previousState = EmptyState
    /\ events = <<>>
    /\ Exited => (DescribeFailed \/ (exitCode = 0 /\ writes = 1))

\* C11, amended: when the state file is missing, unreadable, not valid JSON,
\* or valid JSON that holds no case record, loadState returns a state with
\* no snapshot under any case id: the empty state, or one entry under the
\* key "undefined" when the JSON is a string or a list of values without a
\* caseId.  No polled case is diffed or notified, and the invocation runs
\* to completion: it exits 0 after its one write unless describeCases failed.
C11_ForeignFileHoldsNoSnapshot ==
  (HoldsNoCaseRecord(fileAtStart) /\ pc # "idle") =>
    /\ DOMAIN previousState \subseteq {Undefined}
    /\ DOMAIN previousState \cap CaseIds = {}
    /\ fileAtStart.kind \in {"missing", "unreadable", "partial", "scalar"} =>
         previousState = EmptyState
    /\ events = <<>>
    /\ notified = <<>>
    /\ Exited => (DescribeFailed \/ (exitCode = 0 /\ writes = 1))

\* A JSON string was at the path: the load kept an entry under "undefined",
\* two cases were polled and the invocation saved them and exited 0.
C11_Witness ==
  /\ fileAtStart.kind = "text"
  /\ previousState # EmptyState
  /\ Len(cases) = 2
  /\ Saved
  /\ exitCode = 0

\* ------------------------------------------- C12..C17: the retried AI call
CallSettled == callPc = "settled"
\* Every answer so far was a 429 response.
AllRateLimited == \A k \in 1..Len(fed) : fed[k].status = 429
\* The call was answered 429 on its first attempt and on each of its retries.
Exhausted == Len(fed) = MaxRetries + 1 /\ AllRateLimited

\* C12: for callOpenAI and callClaude, a call whose first two attempts are
\* answered 429 and whose third is answered with a success resolves with the
\* content of the third response, after exactly three requests and two waits.
C12_ThirdAttemptResolves ==
  (/\ Len(fed) = 3
   /\ fed[1].status = 429
   /\ fed[2].status = 429
   /\ fed[3].status = 200
   /\ fed[3].body.kind = "content") =>
    /\ CallSettled
    /\ callOutcome = Resolved(fed[3].body.content)
    /\ requests = 3
    /\ Len(waits) = 2

\* callClaude has resolved with the text of its third response, which is not
\* the text the first 429 carried.
C12_Witness ==
  /\ provider = "claude"
  /\ Len(fed) = 3
  /\ fed[1].status = 429 /\ fed[1].body = ContentBody(1)
  /\ fed[2].status = 429
  /\ fed[3].status = 200 /\ fed[3].body = ContentBody(2)
  /\ callOutcome = Resolved(2)

C14_ExhaustedCarriesStatusAndType ==
  Exhausted =>
    /\ callOutcome.kind = "rejected"
    /\ callOutcome.statusCode = 429
    /\ callOutcome.type \in ErrorTypes

\* C14, amended: a call rate-limited until its retries are exhausted is
\* settled by the body of the last 429 response.  A JSON body with an error
\* object rejects with the status code 429 and that object's type; a body
\* that is not JSON, or JSON with neither error nor content, rejects with the
\* status code 429 and no type; a body with content resolves with it.
C14_ExhaustedSettlesOnLastBody ==
  Exhausted =>
    LET b == fed[MaxRetries + 1].body
    IN /\ CallSettled
       /\ b.kind = "error" =>
            /\ callOutcome.kind = "rejected"
            /\ callOutcome.statusCode = 429
            /\ callOutcome.type = b.type
       /\ b.kind \in {"notjson", "plain"} =>
            /\ callOutcome.kind = "rejected"
            /\ callOutcome.statusCode = 429
            /\ callOutcome.type = "undefined"
       /\ b.kind = "content" => callOutcome = Resolved(b.content)

\* The last of four 429 responses had no JSON body: the rejection has the
\* status code and no type.
C14_Witness ==
  /\ Exhausted
  /\ fed[MaxRetries + 1].body = NotJson
  /\ callOutcome.kind = "rejected"
  /\ callOutcome.statusCode = 429
  /\ callOutcome.type = "undefined"

\* C15: a response with an error body and a status other than 429, or the
\* failure of the request, rejects the call at once, at whatever attempt:
\* no timer is set for it and no request follows it, and the rejection
\* carries the response's status code and the error type of its body.
C15_OtherErrorRejectsAtOnce ==
  Len(fed) > 0 =>
    LET e == fed[Len(fed)]
    IN /\ e = RequestError =>
            /\ CallSettled
            /\ callOutcome.kind = "rejected"
            /\ requests = Len(fed)
            /\ Len(waits) = Len(fed) - 1
       /\ (e.status \in StatusCodes \ {429} /\ e.body.kind = "error") =>
            /\ CallSettled
            /\ callOutcome.kind = "rejected"
            /\ callOutcome.statusCode = e.status
            /\ callOutcome.type = e.body.type
            /\ requests = Len(fed)
            /\ Len(waits) = Len(fed) - 1

\* The second retry was answered 500 with an error body: the call is
\* rejected with that status and type after three requests and two waits.
C15_Witness ==
  /\ Len(fed) = 3
  /\ fed[3].status = 500
  /\ fed[3].body = ErrorBody("server_error")
  /\ CallSettled
  /\ callOutcome.statusCode = 500
  /\ callOutcome.type = "server_error"
  /\ requests = 3

\* C16: the wait after the 429 at retry index k is the response's wait hint
\* whenever it carries one, for every hint value and in the hint's unit
\* (seconds), and 1 s * 2^k otherwise; the request that follows is attempt
\* k + 1.  Waits are in ms.
C16_WaitIsHintOrBackoff ==
  /\ \A j \in 1..Len(waits) :
       waits[j] = IF fed[j].retryAfterHeader # NoHint
                  THEN fed[j].retryAfterHeader * 1000
                  ELSE (2 ^ (j - 1)) * 1000
  /\ requests = retries + 1

\* C17: callOpenAI and callClaude follow the same retry policy: given the
\* same answers they send the same number of requests, set the same timers
\* and settle alike, resolved with the same content or rejected with the
\* same status code and error type.
C17_SameRetryPolicy ==
  CallSettled =>
    LET a == Called("openai", fed, 0, MaxRetries)
        b == Called("claude", fed, 0, MaxRetries)
        mine == IF provider = "openai" THEN a ELSE b
    IN /\ a.requests = b.requests
       /\ a.waits = b.waits
       /\ a.outcome.kind = b.outcome.kind
       /\ a.outcome.content = b.outcome.content
       /\ a.outcome.statusCode = b.outcome.statusCode
       /\ a.outcome.type = b.outcome.type
       /\ mine.requests = requests
       /\ mine.waits = waits
       /\ mine.outcome = callOutcome

\* callClaude has waited for a hint, then twice by backoff, and is rejected.
C17_Witness ==
  /\ provider = "claude"
  /\ CallSettled
  /\ waits = <<1, 2000, 4000>>
  /\ callOutcome.kind = "rejected"
  /\ callOutcome.statusCode = 429

\* --------------------------------------- C18: the generator's exit paths
Notices == SelectSeq(genPosts, LAMBDA c : c.kind = "notice")
GenDone == genPc = "done"
\* main's catch has run.
Caught == GenDone /\ genError # NoOutcome

\* C18: a run of the generator that fails with an error of status code 429
\* tries to post one rate-limit notice, given owner/repo, issue number and
\* token, and exits 1 whether the post succeeds or fails; a run that fails
\* with another error posts no notice and exits 1; no run posts more than
\* one notice; a run whose request was generated and posted exits 0.
C18_NoticeOnlyForRateLimit ==
  /\ Len(Notices) <= 1
  /\ Caught => genExit = 1
  /\ (/\ Caught
      /\ genError.statusCode = 429
      /\ genEnv.repository = "owner/repo"
      /\ genEnv.issueNumber
      /\ genEnv.githubToken) => Len(Notices) = 1
  /\ (Caught /\ genError.statusCode # 429) => Notices = <<>>
  /\ (GenDone /\ ~Caught /\ genPosts = <<Comment("request", "ok")>>) =>
       genExit = 0
  /\ (GenDone /\ genExit = 0) =>
       (~Caught /\ genPosts = <<Comment("request", "ok")>>)

\* The call was rejected with status code 429, the post of the notice was
\* rejected too, and the process exited 1.
C18_Witness ==
  /\ Caught
  /\ genError.statusCode = 429
  /\ genPosts = <<Comment("notice", "rejected")>>
  /\ genExit = 1

\* ------------------------------------- C19: errors of the gateway, rethrown
\* C19: when the gateway operation of the creation or reply flow fails, the
\* flow tries to post the error comment (given token, repository and issue
\* number) and then rejects with the gateway's error, whether the post of
\* the error comment succeeds or fails.
C19_GatewayErrorRethrown ==
  (flowPc \in {"settled", "crashed"} /\ flowError = PlanRequired) =>
    /\ flowOutcome = PlanRequired
    /\ NotifyConfigured(flow) =>
         (Len(flowPosts) = 1 /\ flowPosts[1].kind = "error")

\* ------------------------------------------------- C20: the live gateway
GatewayOps == {"createCase", "describeCases", "addCommunicationToCase"}

\* C20: on a gateway constructed in live mode, createCase, describeCases and
\* addCommunicationToCase always reject with the plan-required error and
\* never return a result, for every argument and after any operations; the
\* mode at every operation is the mode the gateway was constructed in.
C20_LiveGatewayAlwaysRejects ==
  \A k \in 1..Len(replies) :
    /\ replies[k].mockMode = client.mockMode
    /\ (~client.mockMode /\ replies[k].op \in GatewayOps) =>
         replies[k].result = PlanRequired

\* A live gateway has loaded credentials and has then rejected a
\* describeCases and a createCase.
C20_Witness ==
  /\ ~client.mockMode
  /\ client.credentials # NoCredentials
  /\ Len(replies) = 3
  /\ replies[1].op = "loadCredentials"
  /\ replies[2].op = "describeCases" /\ replies[2].result = PlanRequired
  /\ replies[3].op = "createCase" /\ replies[3].result = PlanRequired

\* ------------------------------------------- C21..C25: the credentials
\* C21: in live mode the first gateway operation on an instance resolves
\* the credentials (lazily, not at construction): once it has been made the
\* instance holds credentials, or the operation has failed with the error
\* of loadCredentials (no credentials file, no such profile).
C21_FirstLiveOperationResolvesCredentials ==
  \A k \in 1..Len(replies) :
    (/\ ~client.mockMode
     /\ replies[k].op \in GatewayOps
     /\ \A j \in 1..(k - 1) : replies[j].op \notin GatewayOps) =>
      \/ replies[k].result.kind = "threw"
      \/ client.credentials # NoCredentials

\* C22: once loadCredentials has succeeded on an instance, the instance's
\* credentials are the ones that call returned, whatever operations follow,
\* further loadCredentials calls included.
C22_CredentialsLoadedOnce ==
  \A k \in 1..Len(replies) :
    (replies[k].op = "loadCredentials"
       /\ replies[k].result.kind = "returned") =>
      client.credentials = replies[k].result.value

\* The sections of the credentials file under the client's profile, the
\* value a section gives a key, and whether it gives all three keys.
ProfileSections ==
  {k \in 1..Len(credentialsFile.sections) :
     <<credentialsFile.sections[k].name>> = client.profile}
Gives(section, key) ==
  \E k \in 1..Len(section.pairs) : section.pairs[k].key = key
ValueOf(section, key) ==
  LET k == CHOOSE n \in 1..Len(section.pairs) : section.pairs[n].key = key
  IN section.pairs[k].value
IsComplete(section) == \A key \in CredentialKeys : Gives(section, key)
Loaded == replies # <<>> /\ replies[1].op = "loadCredentials"

\* C23: for a credentials text with a complete section of profile P (key
\* id, secret and session token as key = value lines under [P]),
\* parseCredentials returns exactly the three values of that section,
\* whatever other sections and lines the text holds, in whatever order.
C23_CompleteProfileReturnedUnchanged ==
  (Loaded /\ credentialsFile.exists) =>
    \A k \in ProfileSections :
      LET section == credentialsFile.sections[k]
      IN (ProfileSections = {k} /\ IsComplete(section)) =>
           replies[1].result =
             Returned([accessKeyId |-> ValueOf(section, "aws_access_key_id"),
                       secretAccessKey |->
                         ValueOf(section, "aws_secret_access_key"),
                       sessionToken |->
                         ValueOf(section, "aws_session_token")])

\* The sections under the client's profile, taken together, lack the key.
Lacks(key) ==
  \A k \in ProfileSections : ~Gives(credentialsFile.sections[k], key)
\* The profile names an error message lists after 'Available profiles: '.
NamesIn(message) ==
  SelectSeq(SubSeq(message, indexOf(message, "Available profiles: ") + 1,
                   Len(message)),
            LAMBDA token : token # ", ")

\* C24: on a credentials text without a usable profile P (no [P] section,
\* or none that gives the key id, or none that gives the secret)
\* loadCredentials throws, leaves the instance's credentials unset, and its
\* message lists the name of every bracketed line of the text, once per
\* occurrence and in the order of the file.
C24_NoUsableProfileThrowsListingProfiles ==
  (/\ Loaded
   /\ credentialsFile.exists
   /\ Lacks("aws_access_key_id") \/ Lacks("aws_secret_access_key")) =>
    /\ replies[1].result.kind = "threw"
    /\ client.credentials = NoCredentials
    /\ NamesIn(replies[1].result.message) =
         [k \in 1..Len(credentialsFile.sections) |->
            credentialsFile.sections[k].name]

\* The file holds two [other] sections and the client asked for default:
\* the call has thrown.
C24_Witness ==
  /\ Loaded
  /\ client.profile = <<"default">>
  /\ Len(credentialsFile.sections) = 2
  /\ credentialsFile.sections[1].name = "other"
  /\ credentialsFile.sections[2].name = "other"
  /\ IsComplete(credentialsFile.sections[1])
  /\ replies[1].result.kind = "threw"

\* C25: on a mock gateway every createCase resolves with a case id (and the
\* display id cut from it), and any two createCase calls resolve with
\* different case ids.
C25_MockCaseIdsDiffer ==
  \A j, k \in 1..Len(replies) :
    (/\ j < k
     /\ replies[j].op = "createCase" /\ replies[j].mockMode
     /\ replies[k].op = "createCase" /\ replies[k].mockMode) =>
      /\ replies[j].result.kind = "resolved"
      /\ replies[k].result.kind = "resolved"
      /\ replies[j].result.content # replies[k].result.content

\* ------------------------------------------ C26, C27: the reply command
Blank(str) == \A k \in 1..Len(str) : str[k] \in Whitespace
HoldsCommand(line) == includes(line, "/reply")
IsFence(line) == includes(line, Fence)
\* The line is '/reply' alone, or '/reply', whitespace and the text, with
\* whitespace around at most.
IsBareCommand(line) ==
  \E a \in 1..Len(line) :
    /\ line[a] = "/reply"
    /\ Blank(SubSeq(line, 1, a - 1))
    /\ Blank(SubSeq(line, a + 1, Len(line)))
IsCommandWith(line, text) ==
  \E a, c, d \in 1..Len(line) :
    /\ a < c /\ c <= d
    /\ line[a] = "/reply"
    /\ Blank(SubSeq(line, 1, a - 1))
    /\ Blank(SubSeq(line, a + 1, c - 1))
    /\ Blank(SubSeq(line, d + 1, Len(line)))
    /\ line[c] \notin Whitespace /\ line[d] \notin Whitespace
    /\ text = SubSeq(line, c, d)
\* The lines after line r up to the next fence line, or up to the end of
\* the comment, and their text.
LinesUpToFence(lines, r) ==
  LET fences == {k \in (r + 1)..Len(lines) : IsFence(lines[k])}
      end == IF fences = {} THEN Len(lines)
             ELSE (CHOOSE k \in fences : \A j \in fences : k <= j) - 1
  IN SubSeq(lines, r + 1, end)
FollowingText(lines, r) == TextOf(LinesUpToFence(lines, r))
Extracted == extracted # <<>>

\* The same from the first line after r that is not blank, up to the next
\* fence line after that one.
StartedText(lines, r) ==
  LET start == CHOOSE k \in (r + 1)..Len(lines) :
                 ~Blank(lines[k]) /\ \A j \in (r + 1)..(k - 1) : Blank(lines[j])
  IN TextOf(<<lines[start]>> \o LinesUpToFence(lines, start))
\* Line r is the only line of the comment that holds '/reply', holds
\* nothing else, and a later line is not blank.
IsCommandBlock(r) ==
  /\ IsBareCommand(comment[r])
  /\ \A k \in 1..Len(comment) : HoldsCommand(comment[k]) => k = r
  /\ \E k \in (r + 1)..Len(comment) : ~Blank(comment[k])

\* C26 (single line): for a comment that is one '/reply <text>' line the
\* result is the text, trimmed.
SingleCommandLineGivesItsText ==
  (Extracted /\ Len(comment) = 1) =>
    \A c, d \in 1..Len(comment[1]) :
      IsCommandWith(comment[1], SubSeq(comment[1], c, d)) =>
        extracted[1] = Message(SubSeq(comment[1], c, d))
\* C26 (no command): a comment without any '/reply' token gives none.
NoCommandGivesNone ==
  (Extracted /\ \A k \in 1..Len(comment) : ~HoldsCommand(comment[k])) =>
    extracted[1] = NoMessage

InsideFence(lines, k) ==
  Cardinality({j \in 1..(k - 1) : IsFence(lines[j])}) % 2 = 1
StartsWithCommand(line) == startsWith(trim(line), "/reply")
C27_FencedCommandIgnored ==
  Extracted =>
    \A k \in 1..Len(comment) :
      (/\ StartsWithCommand(comment[k])
       /\ trim(Tail(trim(comment[k]))) # <<>>
       /\ ~IsFence(comment[k]) /\ ~InsideFence(comment, k)
       /\ \A j \in 1..(k - 1) :
            HoldsCommand(comment[j]) => InsideFence(comment, j)) =>
        extracted[1] = Message(trim(Tail(trim(comment[k]))))

\* ----------------------------------------- C28..C30: the parsed issue
Parsed == parsed # <<>>
\* The sections of the issue under a heading, and the lines of a section
\* that are not blank.
SectionsUnder(heading) ==
  {k \in 1..Len(issue.sections) : issue.sections[k].heading = heading}
NonBlank(lines) == SelectSeq(lines, LAMBDA line : ~Blank(line))

\* C28: the severity is that of the first non-empty line of the severity
\* section, in this order: 'Critical' or 緊急 gives urgent, else 'High' or 高
\* gives high, else 'Normal' or 通常 gives normal, else low; without a
\* severity section, or with an empty one, it is low; it is always one of
\* low, normal, high, urgent.
C28_SeverityInPriorityOrder ==
  Parsed =>
    /\ parsed[1].severity \in {"low", "normal", "high", "urgent"}
    /\ SectionsUnder("severity") = {} => parsed[1].severity = "low"
    /\ \A k \in SectionsUnder("severity") :
         SectionsUnder("severity") = {k} =>
           LET lines == NonBlank(issue.sections[k].lines)
               Has(word) == lines # <<>> /\ includes(lines[1], word)
           IN parsed[1].severity =
                IF Has("Critical") \/ Has("Kinkyu") THEN "urgent"
                ELSE IF Has("High") \/ Has("Kou") THEN "high"
                ELSE IF Has("Normal") \/ Has("Tsujo") THEN "normal"
                ELSE "low"

\* The first line of the severity section holds both 'High' and
\* 'Critical', and the severity is urgent.
C28_Witness ==
  /\ Parsed
  /\ \E k \in SectionsUnder("severity") :
       /\ SectionsUnder("severity") = {k}
       /\ issue.sections[k].lines = <<<<"High", " ", "Critical">>>>
  /\ parsed[1].severity = "urgent"

\* The codes of the table and the fallback code.
CodeStrings == {mapping[name] : name \in DOMAIN mapping} \cup {"general-info"}
\* The name a service section gives: its first line that is not blank,
\* trimmed, or the empty name.
NameIn(section) == trim(first(NonBlank(section.lines)))

\* C29: the service code is a total function of the service name: EC2, RDS,
\* S3 and Lambda give their codes, every name outside the table (the empty
\* name and an absent section included) gives 'general-info', and the
\* result is always a code string.
C29_ServiceCodeTotal ==
  Parsed =>
    /\ parsed[1].serviceCode \in CodeStrings
    /\ SectionsUnder("service") = {} => parsed[1].serviceCode = "general-info"
    /\ \A k \in SectionsUnder("service") :
         SectionsUnder("service") = {k} =>
           LET name == NameIn(issue.sections[k])
           IN /\ name = <<"EC2">> =>
                   parsed[1].serviceCode = "amazon-elastic-compute-cloud-linux"
              /\ name = <<"RDS">> =>
                   parsed[1].serviceCode = "amazon-relational-database-service"
              /\ name = <<"S3">> =>
                   parsed[1].serviceCode = "amazon-simple-storage-service"
              /\ name = <<"Lambda">> => parsed[1].serviceCode = "aws-lambda"
              /\ name \notin DOMAIN mapping =>
                   parsed[1].serviceCode = "general-info"

\* The headings the body is built from, in the order of the body, each
\* with the heading the body gives it.
BodyHeadings == <<"details", "steps", "remedies">>
BodyTitles == <<"## details", "## steps", "## remedies">>
\* The lines a section gives the body: its heading, then its lines that
\* are not blank, trimmed.
Block(title, section) ==
  LET lines == NonBlank(section.lines)
  IN <<<<title>>>> \o [k \in 1..Len(lines) |-> trim(lines[k])]
\* The lines of the sections that occur, from heading n on, in the order
\* of the body.
RECURSIVE ExpectedLines(_)
ExpectedLines(n) ==
  IF n > Len(BodyHeadings) THEN <<>>
  ELSE IF SectionsUnder(BodyHeadings[n]) = {} THEN ExpectedLines(n + 1)
  ELSE Block(BodyTitles[n],
             issue.sections[CHOOSE k \in SectionsUnder(BodyHeadings[n]) :
                              TRUE])
         \o ExpectedLines(n + 1)
\* The issue without its sections under the heading the code does not read.
KnownOnly ==
  [issue EXCEPT !.sections =
     SelectSeq(issue.sections, LAMBDA section : section.heading # "category")]
Defaults ==
  [subject |-> <<>>, body |-> <<>>, severity |-> "low", category |-> "other",
   serviceCode |-> "general-info"]

\* C30: the lines of the body are, in the order details, reproduction
\* steps, attempted remedies, exactly those of the three sections that occur
\* in the input, each as its own heading followed by its non-empty trimmed
\* lines (an absent section gives no line); a heading outside the known set
\* changes no field of the result; an input without headings gives all
\* defaults.
C30_BodyFromSectionsInFixedOrder ==
  Parsed =>
    /\ (\A n \in 1..3 : Cardinality(SectionsUnder(BodyHeadings[n])) <= 1) =>
         NonBlank(splitOn(parsed[1].body, "\n")) = ExpectedLines(1)
    /\ parsed[1] = parseIssueBody(IssueText(KnownOnly))
    /\ issue.sections = <<>> => parsed[1] = Defaults

\* The input holds remedies, a heading the code does not read, and details,
\* each with lines: the body gives details, then remedies.
C30_Witness ==
  /\ Parsed
  /\ Len(issue.sections) = 3
  /\ issue.sections[1].heading = "remedies"
  /\ issue.sections[2].heading = "category"
  /\ issue.sections[3].heading = "details"
  /\ \A k \in 1..3 : Len(issue.sections[k].lines) = 3
  /\ parsed[1].body =
       <<"## details", "\n", "b", "\n", "a", "\n", "\n",
         "## remedies", "\n", "b", "\n", "a">>

\* ------------------------------------------------- C31: the subject
\* The summary the code reads: the last section under the summary heading
\* (a repeated heading starts its section again), its non-blank lines
\* trimmed and joined by single spaces.
SummaryText ==
  LET section == issue.sections[CHOOSE k \in SectionsUnder("summary") :
                                  \A m \in SectionsUnder("summary") : m <= k]
      lines == NonBlank(section.lines)
  IN join([k \in 1..Len(lines) |-> trim(lines[k])], <<" ">>)

\* C31: the subject never exceeds 100 characters: it is the first 100
\* characters of the summary section's non-empty trimmed lines joined by
\* single spaces, cut wherever the limit falls, and the empty string when
\* there is no summary section.
C31_SubjectIsFirstHundredCharacters ==
  Parsed =>
    /\ Len(parsed[1].subject) <= SubjectLength
    /\ SectionsUnder("summary") = {} => parsed[1].subject = <<>>
    /\ SectionsUnder("summary") # {} =>
         /\ Len(SummaryText) <= SubjectLength =>
              parsed[1].subject = SummaryText
         /\ Len(SummaryText) > SubjectLength =>
              /\ Len(parsed[1].subject) = SubjectLength
              /\ \A k \in 1..SubjectLength :
                   parsed[1].subject[k] = SummaryText[k]

\* The summary has two lines and is longer than the limit: the subject is
\* cut after the blank between them.
C31_Witness ==
  /\ Parsed
  /\ SectionsUnder("summary") # {}
  /\ Len(SummaryText) > SubjectLength
  /\ Len(parsed[1].subject) = SubjectLength
  /\ parsed[1].subject[SubjectLength] = " "

\* ------------------------------------------------ C32: the mock fixture
\* C32: on a mock gateway describeCases resolves with a non-empty case list
\* that is the same on every call (same case id, status and communication
\* timestamps), so that a monitor run that compares the list of a later
\* call with the saved list of an earlier one finds no change of status and
\* no new communication.
C32_MockFixtureIsTheSameOnEveryCall ==
  \A j, k \in 1..Len(replies) :
    (/\ j < k
     /\ replies[j].op = "describeCases" /\ replies[j].mockMode
     /\ replies[k].op = "describeCases" /\ replies[k].mockMode) =>
      LET earlier == mockCases(replies[j].result.content)
          later == mockCases(replies[k].result.content)
      IN /\ replies[j].result.kind = "resolved"
         /\ replies[k].result.kind = "resolved"
         /\ later # <<>>
         /\ later = earlier
         /\ ~statusDiffers(later[1], earlier[1])
         /\ getNewCommunications(later[1], earlier[1]) = <<>>

\* ------------------------------------------------ C33: the total wait
RECURSIVE Sum(_)
Sum(s) == IF s = <<>> THEN 0 ELSE Head(s) + Sum(Tail(s))
\* The waits of a call that is rate-limited on every attempt and never
\* given a hint: 1 s + 2 s + 4 s with the default maxRetries.
BackoffTotal == (2 ^ MaxRetries - 1) * 1000
Unhinted == \A k \in 1..Len(fed) : fed[k].retryAfterHeader = NoHint

\* C33: a call that is rate-limited on every attempt and receives no wait
\* hint has waited 7 s in total when its failure surfaces, and the waits of
\* any call, whatever the upstream answers, sum to no more than that.
C33_TotalWaitBounded ==
  /\ (Exhausted /\ Unhinted) => Sum(waits) = BackoffTotal
  /\ Sum(waits) <= BackoffTotal

\* ------------------------------------- C34: the arguments of a request
\* C34: generateSupportRequest called with a provider other than openai or
\* claude rejects with 'Unsupported provider: <name>' and sends no request;
\* called with an empty API key it rejects as well, whatever the upstream
\* answers.
C34_BadArgumentsReject ==
  /\ (provider \notin Providers /\ callPc # "idle") =>
       /\ CallSettled
       /\ callOutcome.kind = "rejected"
       /\ callOutcome.message = "Unsupported provider: " \o provider
       /\ requests = 0
  /\ (apiKey = "" /\ CallSettled) => callOutcome.kind = "rejected"

GatewaySucceeded ==
  /\ flowPc # "idle"
  /\ flow.input = "ok"
  /\ GatewayResult(flow, clock).kind = "resolved"

\* C36: in the creation flow and the reply flow, when createCase or
\* addCommunicationToCase has succeeded no failure comment is posted and the
\* flow does not reject, also when the post of the confirmation comment
\* fails.
C36_FailureCommentOnlyForGatewayFailure ==
  GatewaySucceeded =>
    /\ \A k \in 1..Len(flowPosts) : flowPosts[k].kind # "error"
    /\ flowPc = "settled" => flowOutcome.kind = "resolved"

\* ------------------------------------- C37: a comment without a reply
\* C37: when extractReplyMessage returns none or the empty string,
\* replyToCase returns null without calling addCommunicationToCase and
\* without posting a confirmation or an error comment; and
\* addCommunicationToCase is called at most once per replyToCase, with the
\* message extracted, which is not empty.
C37_NoReplyReturnsNull ==
  /\ (extracted # <<>> /\ NoReply(extracted[1])) =>
       /\ flowPc = "settled"
       /\ flowOutcome = Resolved(Null)
       /\ replies = <<>>
       /\ flowPosts = <<>>
  /\ Len(replies) <= 1
  /\ \A k \in 1..Len(replies) :
       /\ replies[k].op = "addCommunicationToCase"
       /\ replies[k].arg = extracted[1].message
       /\ replies[k].arg # <<>>

\* The comment is '/reply' followed by two empty lines, from which the
\* empty string is extracted: with token, repository and issue number
\* given, replyToCase has returned null and nothing was posted.
C37_Witness ==
  /\ comment = <<<<"/reply">>, <<>>, <<>>>>
  /\ extracted = <<Message(<<>>)>>
  /\ NotifyConfigured(flow)
  /\ flowPc = "settled"
  /\ flowOutcome = Resolved(Null)
  /\ replies = <<>>
  /\ flowPosts = <<>>

\* ------------------------------------ C38: a 429 whatever its body is
\* C38: every answer with status 429 that comes while retries remain has
\* set a timer, after which another request is sent, whatever its body is
\* (JSON with or without an error object, or no JSON at all).
C38_RateLimitRetriedWhateverTheBody ==
  \A k \in 1..Len(fed) :
    (fed[k].status = 429 /\ k <= MaxRetries) =>
      /\ Len(waits) >= k
      /\ requests > k \/ callPc = "sleeping"

\* ------------------------------------------- C39: overlapping runs
\* Both runs have saved, and each write replaced the file.
BothSaved ==
  \A r \in Runs : runs[r].pc = "exited" /\ runs[r].saveOutcome = "ok"
\* The run that saved last, and the other one.
LastSaver ==
  CHOOSE r \in Runs : \A q \in Runs : runs[q].savedAt <= runs[r].savedAt
FirstSaver == CHOOSE r \in Runs : r # LastSaver
\* The runs overlapped: both loaded before either saved; or one came
\* strictly after the other.
Overlapped ==
  \A r, q \in Runs : runs[r].polledAt < runs[q].savedAt
Serial == runs[FirstSaver].savedAt < runs[LastSaver].polledAt
\* The events both runs emitted.
EventsIn(run) == {run.events[k] : k \in 1..Len(run.events)}
CommonEvents == EventsIn(runs[1]) \cap EventsIn(runs[2])

\* C39: after two monitor runs on the same state file the file holds the
\* poll of the run that saved last; when the runs came strictly one after
\* the other, no change was emitted by both and the file holds the later
\* poll.  (That overlapping runs can emit the same change twice and leave
\* the older poll in the file is the witness.)
C39_RaceOnlyWhenRunsOverlap ==
  BothSaved =>
    /\ file = ListFile(runs[LastSaver].cases)
    /\ Serial \/ Overlapped
    /\ Serial =>
         /\ CommonEvents = {}
         /\ runs[FirstSaver].polledAt < runs[LastSaver].polledAt

\* Two runs overlapped, both emitted the same change, and the run that
\* polled first saved last: the file holds its poll, which differs from the
\* later one.
C39_Witness ==
  /\ BothSaved
  /\ Overlapped
  /\ CommonEvents # {}
  /\ runs[LastSaver].polledAt < runs[FirstSaver].polledAt
  /\ runs[LastSaver].cases # runs[FirstSaver].cases
  /\ file = ListFile(runs[LastSaver].cases)

====
